---- MODULE Spec2Model ----
(***************************************************************************)
(* Image difference + posterize + 3x3 sharpen kernels of lab-2 (V0 and V1: *)
(* full-frame buffers, V2: three sequential stages with line buffer and    *)
(* window, V3: three dataflow stages joined by two hls::stream FIFOs), the *)
(* lab-1 difference kernel, and the software references and pack/unpack    *)
(* helpers of the testbenches.                                             *)
(*                                                                         *)
(* A 512-bit word is modelled as the array of its PIXELS_PER_CHUNK 8-bit   *)
(* lanes: word.range(8k+7, 8k) is chunk[k].  HEIGHT, WIDTH and             *)
(* PIXELS_PER_CHUNK are compile-time macros of the source; the model       *)
(* fixes them per behaviour in the variable cfg so that several small      *)
(* geometries are explored; cfg.D is the depth of the two streams, and     *)
(* cfg.TL, cfg.TH are the macros THRESH_LOW and THRESH_HIGH.  cfg.SYNTH    *)
(* tells the build: TRUE is the synthesised kernel, where the HLS pragmas  *)
(* take effect and a stream is a FIFO of cfg.D places; FALSE is the source *)
(* compiled as a C++ program, where the pragmas are ignored and a stream   *)
(* is a queue without bound.                                               *)
(***************************************************************************)
EXTENDS Integers, Sequences, FiniteSets, TLC

VARIABLES cfg, img_A, img_B, A, B, v2, v3, du, v0, v1

vars == <<cfg, img_A, img_B, A, B, v2, v3, du, v0, v1>>

(***************************************************************************)
(* Bounds of the explored geometries.                                      *)
(***************************************************************************)
MinDim == 3
MaxH == 4
MaxW == 4
MaxP == 2
MaxPipeChunks == 16
PipeH == 5
MaxDepth == 3
MaxRuns == 2

(***************************************************************************)
(* Program constants.                                                      *)
(***************************************************************************)
PIXEL_SIZE_BITS == 8
THRESH_LOW_DEFINED == 32
THRESH_HIGH_DEFINED == 96
STREAM_DEPTH == 16
LOW == 0
MID == 128
HIGH == 255

PixelMax == (2 ^ PIXEL_SIZE_BITS) - 1
Pixels == 0 .. PixelMax

THRESH_LOW == cfg.TL
THRESH_HIGH == cfg.TH
HEIGHT == cfg.H
WIDTH == cfg.W
PIXELS_PER_CHUNK == cfg.P
IMAGE_SIZE == HEIGHT * WIDTH
CHUNKS_PER_ROW == (WIDTH + PIXELS_PER_CHUNK - 1) \div PIXELS_PER_CHUNK
PADDED_WIDTH == CHUNKS_PER_ROW * PIXELS_PER_CHUNK
TOTAL_CHUNKS == CHUNKS_PER_ROW * HEIGHT

Lanes == 0 .. (PIXELS_PER_CHUNK - 1)
ChunkIdx == 0 .. (TOTAL_CHUNKS - 1)

\* (uint8_t) x
U8(x) == x % (2 ^ PIXEL_SIZE_BITS)

\* #pragma HLS STREAM depth: capacity of stream_post and of stream_filt
V3_depth == cfg.D

\* a write to the stream has to wait: only the synthesised FIFO is bounded
V3_stream_full(stream) == cfg.SYNTH /\ Len(stream) >= V3_depth

\* hls::stream is written and read, nothing else: no statement of the kernel
\* closes a stream or marks its end, and none tests for a close, so no
\* stream is closed in any state
V3_stream_closed(stream) == FALSE

\* uint512_t w = 0
ZeroChunk == [k \in Lanes |-> 0]

(***************************************************************************)
(* hls_helpers.h                                                           *)
(***************************************************************************)
posterize(abs_diff) ==
    U8(IF abs_diff < THRESH_LOW THEN 0
       ELSE IF abs_diff < THRESH_HIGH THEN 128 ELSE 255)

\* mutant: a clip without its lower bound
clip_u8_NoLow(x) == U8(IF x > 255 THEN 255 ELSE x)

clip_u8(x) == U8(IF x < 0 THEN 0 ELSE IF x > 255 THEN 255 ELSE x)

(***************************************************************************)
(* Testbench helpers (hls_tb.cpp): logical image <-> row-padded chunks.    *)
(***************************************************************************)
\* the byte buffer behind the chunk array after memset + per-row memcpy
PackedBytes(logical_pixels) ==
    [b \in 0 .. (TOTAL_CHUNKS * PIXELS_PER_CHUNK - 1) |->
        IF (b % PADDED_WIDTH) < WIDTH
        THEN logical_pixels[(b \div PADDED_WIDTH) * WIDTH + (b % PADDED_WIDTH)]
        ELSE 0]

pack_pixels_fast(logical_pixels) ==
    [c \in ChunkIdx |->
        [k \in Lanes |-> PackedBytes(logical_pixels)[c * PIXELS_PER_CHUNK + k]]]

unpack_pixels_fast(hw_chunks) ==
    [p \in 0 .. (IMAGE_SIZE - 1) |->
        LET b == (p \div WIDTH) * PADDED_WIDTH + (p % WIDTH)
        IN  hw_chunks[b \div PIXELS_PER_CHUNK][b % PIXELS_PER_CHUNK]]

(***************************************************************************)
(* Software reference on logical buffers (hls_tb.cpp).                     *)
(***************************************************************************)
sw_P(a, b) ==
    [i \in 0 .. (IMAGE_SIZE - 1) |->
        LET d0 == a[i] - b[i]
            diff == IF d0 < 0 THEN -d0 ELSE d0
        IN  U8(IF diff < THRESH_LOW THEN 0
               ELSE IF diff < THRESH_HIGH THEN 128 ELSE 255)]

sw_reference_logical(a, b) ==
    LET Pq == sw_P(a, b)
    IN  [idx \in 0 .. (IMAGE_SIZE - 1) |->
            LET r == idx \div WIDTH
                c == idx % WIDTH
            IN  IF r = 0 \/ r = HEIGHT - 1 \/ c = 0 \/ c = WIDTH - 1
                THEN 0
                ELSE LET val == 5 * Pq[idx] - Pq[idx - WIDTH] - Pq[idx + WIDTH]
                                - Pq[idx - 1] - Pq[idx + 1]
                         v1c == IF val < 0 THEN 0 ELSE val
                         v2c == IF v1c > 255 THEN 255 ELSE v1c
                     IN  U8(v2c)]

(***************************************************************************)
(* V2 (accelerated_v2.cpp): sequential three-stage kernel.                 *)
(* The kernel state is the record v2:                                      *)
(*   pc     - "posterize" | "filter" | "write" | "done"                    *)
(*   i      - loop counter of Posterize_Loop / Write_Loop                  *)
(*   C_tmp, C_filt - the static BRAM buffers                               *)
(*   lb, win, iter - line buffer, window and counter of Filter_Loop        *)
(*   C      - the output port                                              *)
(*   reads, outs - history: <<iter, index>> of every C_tmp read and every  *)
(*            C_filt write of Filter_Loop                                  *)
(*   run    - history: number of the kernel invocation                     *)
(***************************************************************************)
V2_Process_64_Pixels(valA, valB) ==
    [k \in Lanes |->
        LET pA == valA[k]
            pB == valB[k]
            diff == U8(IF pA > pB THEN pA - pB ELSE pB - pA)
        IN  posterize(diff)]

V2_LOOP_LIMIT == TOTAL_CHUNKS + CHUNKS_PER_ROW + 1

\* mutant: the lag taken as one row, without the extra chunk
V2_out_idx_Mut(iter) == iter - CHUNKS_PER_ROW

V2_out_idx(iter) == iter - (CHUNKS_PER_ROW + 1)

V2_row_border(r_idx) == (r_idx = 0) \/ (r_idx = HEIGHT - 1)

\* mutant: the right border taken at the padded width
V2_col_border_Mut(j) == (j = 0) \/ (j = PADDED_WIDTH - 1)

\* mutant: only the first column taken as border
V2_col_border_LeftOnly(j) == (j = 0)

\* mutant: the border taken past the right edge instead of on it
V2_col_border_PastEdge(j) == (j = 0) \/ (j >= WIDTH)

V2_col_border(j) == (j = 0) \/ (j = WIDTH - 1)

\* mutant: the west operand taken from the east side
V2_val_Mut(win, k) ==
    LET east == IF k < PIXELS_PER_CHUNK - 1 THEN win[1][1][k + 1]
                ELSE win[1][2][0]
    IN  5 * win[1][1][k] - win[0][1][k] - win[2][1][k] - east - east

\* mutant: the lane to the left taken without the test on k
V2_west_at_Unguarded(k) == <<1, k - 1>>

\* <<window column, lane>> read for the west operand of lane k
V2_west_at(k) ==
    IF k > 0 THEN <<1, k - 1>> ELSE <<0, PIXELS_PER_CHUNK - 1>>

\* <<window column, lane>> read for the east operand of lane k
V2_east_at(k) ==
    IF k < PIXELS_PER_CHUNK - 1 THEN <<1, k + 1>> ELSE <<2, 0>>

\* mutant: across the chunk boundary the west operand is taken from the
\* first lane of the left chunk
V2_west_Mut(win, k) ==
    IF k > 0 THEN win[1][1][k - 1] ELSE win[1][0][0]

\* west operand of lane k: the lane to the left, or the last lane of the
\* chunk to the left
V2_west(win, k) == win[1][V2_west_at(k)[1]][V2_west_at(k)[2]]

\* east operand of lane k: the lane to the right, or the first lane of the
\* chunk to the right
V2_east(win, k) == win[1][V2_east_at(k)[1]][V2_east_at(k)[2]]

\* the else branch of Calc_64: stencil value of lane k
V2_val(win, k) ==
    LET west == V2_west(win, k)
        east == V2_east(win, k)
    IN  5 * win[1][1][k] - win[0][1][k] - win[2][1][k] - west - east

V2_Calc_64(win, out_idx) ==
    LET r_idx == out_idx \div CHUNKS_PER_ROW
        c_chk == out_idx % CHUNKS_PER_ROW
        row_border == V2_row_border(r_idx)
    IN  [k \in Lanes |->
            LET j == (c_chk * PIXELS_PER_CHUNK) + k
                col_border == V2_col_border(j)
            IN  IF row_border \/ col_border THEN 0
                ELSE clip_u8(V2_val(win, k))]

\* mutant: the shift without its second assignment, so that the centre
\* column keeps its chunk
V2_ShiftFill_Mut(win, c0, c1, c2) ==
    [r \in 0 .. 2 |->
        [c \in 0 .. 2 |->
            IF c < 2 THEN win[r][1]
            ELSE IF r = 0 THEN c0 ELSE IF r = 1 THEN c1 ELSE c2]]

\* left shift of the window, then the new right column
V2_ShiftFill(win, c0, c1, c2) ==
    [r \in 0 .. 2 |->
        [c \in 0 .. 2 |->
            IF c < 2 THEN win[r][c + 1]
            ELSE IF r = 0 THEN c0 ELSE IF r = 1 THEN c1 ELSE c2]]

\* mutant: a line buffer whose upper row is never refilled
V2_Filter_Loop_NoRowShift(s) ==
    LET iter == s.iter
        new_chunk == IF iter < TOTAL_CHUNKS THEN s.C_tmp[iter] ELSE ZeroChunk
        col_idx == iter % CHUNKS_PER_ROW
        win1 == IF iter < TOTAL_CHUNKS
                THEN V2_ShiftFill(s.win, s.lb[0][col_idx], s.lb[1][col_idx], new_chunk)
                ELSE V2_ShiftFill(s.win, ZeroChunk, ZeroChunk, ZeroChunk)
        lb1 == IF iter < TOTAL_CHUNKS
               THEN [s.lb EXCEPT ![1][col_idx] = new_chunk]
               ELSE s.lb
        out_idx == V2_out_idx(iter)
        emit == out_idx >= 0 /\ out_idx < TOTAL_CHUNKS
    IN  [s EXCEPT
            !.win = win1,
            !.lb = lb1,
            !.C_filt = IF emit
                       THEN [s.C_filt EXCEPT ![out_idx] = V2_Calc_64(win1, out_idx)]
                       ELSE s.C_filt,
            !.reads = IF iter < TOTAL_CHUNKS
                      THEN Append(s.reads, <<iter, iter>>) ELSE s.reads,
            !.outs = IF emit THEN Append(s.outs, <<iter, out_idx>>) ELSE s.outs,
            !.iter = iter + 1]

\* one iteration of Filter_Loop
V2_Filter_Loop(s) ==
    LET iter == s.iter
        new_chunk == IF iter < TOTAL_CHUNKS THEN s.C_tmp[iter] ELSE ZeroChunk
        col_idx == iter % CHUNKS_PER_ROW
        win1 == IF iter < TOTAL_CHUNKS
                THEN V2_ShiftFill(s.win, s.lb[0][col_idx], s.lb[1][col_idx], new_chunk)
                ELSE V2_ShiftFill(s.win, ZeroChunk, ZeroChunk, ZeroChunk)
        lb1 == IF iter < TOTAL_CHUNKS
               THEN [s.lb EXCEPT ![0][col_idx] = s.lb[1][col_idx],
                                 ![1][col_idx] = new_chunk]
               ELSE s.lb
        out_idx == V2_out_idx(iter)
        emit == out_idx >= 0 /\ out_idx < TOTAL_CHUNKS
    IN  [s EXCEPT
            !.win = win1,
            !.lb = lb1,
            !.C_filt = IF emit
                       THEN [s.C_filt EXCEPT ![out_idx] = V2_Calc_64(win1, out_idx)]
                       ELSE s.C_filt,
            !.reads = IF iter < TOTAL_CHUNKS
                      THEN Append(s.reads, <<iter, iter>>) ELSE s.reads,
            !.outs = IF emit THEN Append(s.outs, <<iter, out_idx>>) ELSE s.outs,
            !.iter = iter + 1]

\* one step of the kernel: a loop iteration, or a loop exit together with
\* the straight-line code up to the next loop head
V2_Step(s) ==
    IF s.pc = "posterize"
    THEN IF s.i < TOTAL_CHUNKS
         THEN [s EXCEPT !.C_tmp[s.i] = V2_Process_64_Pixels(A[s.i], B[s.i]),
                        !.i = s.i + 1]
         ELSE [s EXCEPT !.pc = "filter",
                        !.lb = [r \in 0 .. 1 |->
                                   [c \in 0 .. (CHUNKS_PER_ROW - 1) |-> ZeroChunk]],
                        !.win = [r \in 0 .. 2 |-> [c \in 0 .. 2 |-> ZeroChunk]],
                        !.iter = 0]
    ELSE IF s.pc = "filter"
    THEN IF s.iter < V2_LOOP_LIMIT
         THEN V2_Filter_Loop(s)
         ELSE [s EXCEPT !.pc = "write", !.i = 0]
    ELSE IF s.pc = "write"
    THEN IF s.i < TOTAL_CHUNKS
         THEN [s EXCEPT !.C[s.i] = s.C_filt[s.i], !.i = s.i + 1]
         ELSE [s EXCEPT !.pc = "done"]
    ELSE s

\* state at kernel entry; the locals lb and win are not yet initialised and
\* hold a value that no read of a lane accepts
V2_Entry ==
    [pc |-> "posterize", i |-> 0,
     C_tmp |-> [c \in ChunkIdx |-> ZeroChunk],
     C_filt |-> [c \in ChunkIdx |-> ZeroChunk],
     lb |-> <<>>,
     win |-> <<>>,
     iter |-> 0,
     C |-> [c \in ChunkIdx |-> ZeroChunk],
     reads |-> <<>>, outs |-> <<>>, run |-> 1]

\* the kernel run from state s to its return (t names the value of s, so
\* that each step is evaluated once)
RECURSIVE V2_Run(_)
V2_Run(s) ==
    CHOOSE r \in {IF t.pc = "done" THEN t ELSE V2_Run(V2_Step(t)) : t \in {s}} : TRUE

\* the next invocation of the kernel: C_tmp and C_filt are static and keep
\* their contents, the locals lb, win and iter take the storage (BRAM and
\* registers) of the previous invocation with what it left there, and the
\* host passes the same output buffer
V2_Reenter(s) ==
    [s EXCEPT !.pc = "posterize", !.i = 0,
              !.reads = <<>>, !.outs = <<>>,
              !.run = s.run + 1]

V2_Posterize == v2.pc = "posterize" /\ v2' = V2_Step(v2)
                /\ UNCHANGED <<cfg, img_A, img_B, A, B, v3, du, v0, v1>>

V2_Filter == v2.pc = "filter" /\ v2' = V2_Step(v2)
             /\ UNCHANGED <<cfg, img_A, img_B, A, B, v3, du, v0, v1>>

V2_Write == v2.pc = "write" /\ v2' = V2_Step(v2)
            /\ UNCHANGED <<cfg, img_A, img_B, A, B, v3, du, v0, v1>>

(***************************************************************************)
(* V3 (accelerated_v3.cpp): three dataflow stages and two streams.         *)
(* The kernel state is the record v3:                                      *)
(*   i            - loop counter of compute_diff_wide                      *)
(*   dpc          - compute_diff_wide: "loop" | "done" (returned)          *)
(*   stream_post, stream_filt - the FIFOs; an element is [idx, data],      *)
(*                  idx being the producer's write count (history)         *)
(*   fpc          - apply_filter_wide: "init" | "fetch" | "write" |        *)
(*                  "exit" (loop left) | "done" (returned)                 *)
(*   lb, win, iter - its locals                                            *)
(*   w            - loop counter of write_result_wide                      *)
(*   wpc          - write_result_wide: "loop" | "done" (returned)          *)
(*   C            - the output port                                        *)
(*   reads, outs  - history: <<iter, idx>> of every stream read and every  *)
(*                  stream write of apply_filter_wide                      *)
(*   stores       - history: <<i, idx>> of every stream read of            *)
(*                  write_result_wide, i the index of C it stored to       *)
(*   run          - history: number of the kernel invocation               *)
(***************************************************************************)
\* mutant: the difference without the comparison, wrapping in 8 bits
V3_Process_64_Pixels_NoAbs(valA, valB) ==
    [k \in Lanes |-> posterize(U8(valA[k] - valB[k]))]

\* mutant: the else branch without its subtraction
V3_Process_64_Pixels_Else(valA, valB) ==
    [k \in Lanes |->
        LET pA == valA[k]
            pB == valB[k]
            diff == U8(IF pA > pB THEN pA - pB ELSE pB)
        IN  posterize(diff)]

V3_Process_64_Pixels(valA, valB) ==
    [k \in Lanes |->
        LET pA == valA[k]
            pB == valB[k]
            diff == U8(IF pA > pB THEN pA - pB ELSE pB - pA)
        IN  posterize(diff)]

\* mutant: the drain one iteration short
V3_LOOP_LIMIT_Mut == TOTAL_CHUNKS + CHUNKS_PER_ROW

V3_LOOP_LIMIT == TOTAL_CHUNKS + CHUNKS_PER_ROW + 1

\* mutant: the lag taken as one row, without the extra chunk
V3_out_idx_RowLag(iter) == iter - CHUNKS_PER_ROW

V3_out_idx(iter) == iter - (CHUNKS_PER_ROW + 1)

V3_row_border(r_idx) == (r_idx = 0) \/ (r_idx = HEIGHT - 1)

\* mutant: the right border taken at the padded width
V3_col_border_Mut(j) == (j = 0) \/ (j = PADDED_WIDTH - 1)

V3_col_border(j) == (j = 0) \/ (j = WIDTH - 1)

\* mutant: the east operand of the last lane taken from the centre chunk
V3_val_Mut(win, k) ==
    LET west == IF k > 0 THEN win[1][1][k - 1]
                ELSE win[1][0][PIXELS_PER_CHUNK - 1]
        east == IF k < PIXELS_PER_CHUNK - 1 THEN win[1][1][k + 1]
                ELSE win[1][1][0]
    IN  5 * win[1][1][k] - win[0][1][k] - win[2][1][k] - west - east

\* the else branch of Calc_64: stencil value of lane k
V3_val(win, k) ==
    LET west == IF k > 0 THEN win[1][1][k - 1]
                ELSE win[1][0][PIXELS_PER_CHUNK - 1]
        east == IF k < PIXELS_PER_CHUNK - 1 THEN win[1][1][k + 1]
                ELSE win[1][2][0]
    IN  5 * win[1][1][k] - win[0][1][k] - win[2][1][k] - west - east

V3_Calc_64(win, out_idx) ==
    LET r_idx == out_idx \div CHUNKS_PER_ROW
        c_chk == out_idx % CHUNKS_PER_ROW
        row_border == V3_row_border(r_idx)
    IN  [k \in Lanes |->
            LET j == (c_chk * PIXELS_PER_CHUNK) + k
                col_border == V3_col_border(j)
            IN  IF row_border \/ col_border THEN 0
                ELSE clip_u8(V3_val(win, k))]

\* mutant: the right column filled upside down
V3_ShiftFill_Swap(win, c0, c1, c2) ==
    [r \in 0 .. 2 |->
        [c \in 0 .. 2 |->
            IF c < 2 THEN win[r][c + 1]
            ELSE IF r = 0 THEN c2 ELSE IF r = 1 THEN c1 ELSE c0]]

\* left shift of the window, then the new right column

V3_ShiftFill(win, c0, c1, c2) ==
    [r \in 0 .. 2 |->
        [c \in 0 .. 2 |->
            IF c < 2 THEN win[r][c + 1]
            ELSE IF r = 0 THEN c0 ELSE IF r = 1 THEN c1 ELSE c2]]

\* mutant: a read that returns the element written last
V3_stream_front_Lifo(q) == q[Len(q)]

\* hls::stream read(): the value returned, and the FIFO left behind
V3_stream_front(q) == Head(q)

\* mutant: a read that leaves the element in the FIFO
V3_stream_rest_Mut(q) == q

V3_stream_rest(q) == Tail(q)

\* the loop increment and test of Loop_Filter_Wide
V3_NextIter(s) ==
    [s EXCEPT !.iter = s.iter + 1,
              !.fpc = IF s.iter + 1 < V3_LOOP_LIMIT THEN "fetch" ELSE "exit"]

\* mutant: a difference stage that writes every chunk twice
V3_compute_diff_wide_Dup(s) ==
    [s EXCEPT !.stream_post =
                  Append(Append(s.stream_post,
                                [idx |-> s.i,
                                 data |-> V3_Process_64_Pixels(A[s.i], B[s.i])]),
                         [idx |-> s.i,
                          data |-> V3_Process_64_Pixels(A[s.i], B[s.i])]),
              !.i = s.i + 1]

\* compute_diff_wide: one iteration of Loop_Diff_Wide; the stream write
\* blocks while the FIFO is full
V3_compute_diff_wide(s) ==
    [s EXCEPT !.stream_post =
                  Append(s.stream_post,
                         [idx |-> s.i,
                          data |-> V3_Process_64_Pixels(A[s.i], B[s.i])]),
              !.i = s.i + 1]

V3_Diff ==
    /\ v3.pc = "run"
    /\ v3.i < TOTAL_CHUNKS
    /\ ~V3_stream_full(v3.stream_post)
    /\ v3' = V3_compute_diff_wide(v3)
    /\ UNCHANGED <<cfg, img_A, img_B, A, B, v2, du, v0, v1>>

\* mutant: a line buffer that keeps every row of the frame
V3_filter_init_FullFrame(s) ==
    [s EXCEPT !.lb = [r \in 0 .. (HEIGHT - 1) |->
                         [c \in 0 .. (CHUNKS_PER_ROW - 1) |-> ZeroChunk]],
              !.win = [r \in 0 .. 2 |-> [c \in 0 .. 2 |-> ZeroChunk]],
              !.iter = 0,
              !.fpc = "fetch"]

\* mutant: a window stage without Init_LB and Init_Win
V3_filter_init_Stale(s) ==
    [s EXCEPT !.iter = 0,
              !.fpc = "fetch"]

\* compute_diff_wide: the loop is left and the function returns
V3_DiffReturn ==
    /\ v3.pc = "run"
    /\ v3.dpc = "loop"
    /\ v3.i = TOTAL_CHUNKS
    /\ v3' = [v3 EXCEPT !.dpc = "done"]
    /\ UNCHANGED <<cfg, img_A, img_B, A, B, v2, du, v0, v1>>

\* apply_filter_wide: Init_LB and Init_Win
V3_filter_init(s) ==
    [s EXCEPT !.lb = [r \in 0 .. 1 |->
                         [c \in 0 .. (CHUNKS_PER_ROW - 1) |-> ZeroChunk]],
              !.win = [r \in 0 .. 2 |-> [c \in 0 .. 2 |-> ZeroChunk]],
              !.iter = 0,
              !.fpc = "fetch"]

V3_FilterInit ==
    /\ v3.pc = "run"
    /\ v3.fpc = "init"
    /\ v3' = V3_filter_init(v3)
    /\ UNCHANGED <<cfg, img_A, img_B, A, B, v2, du, v0, v1>>

\* mutant: a drain iteration that still rotates the line buffer
V3_filter_fetch_DrainLB(s) ==
    LET iter == s.iter
        hd == V3_stream_front(s.stream_post)
        new_chunk == IF iter < TOTAL_CHUNKS THEN hd.data ELSE ZeroChunk
        col_idx == iter % CHUNKS_PER_ROW
        win1 == IF iter < TOTAL_CHUNKS
                THEN V3_ShiftFill(s.win, s.lb[0][col_idx], s.lb[1][col_idx], new_chunk)
                ELSE V3_ShiftFill(s.win, ZeroChunk, ZeroChunk, ZeroChunk)
        lb1 == [s.lb EXCEPT ![0][col_idx] = s.lb[1][col_idx],
                            ![1][col_idx] = new_chunk]
        out_idx == V3_out_idx(iter)
        s1 == [s EXCEPT
                  !.stream_post = IF iter < TOTAL_CHUNKS
                                  THEN V3_stream_rest(s.stream_post)
                                  ELSE s.stream_post,
                  !.reads = IF iter < TOTAL_CHUNKS
                            THEN Append(s.reads, <<iter, hd.idx>>) ELSE s.reads,
                  !.win = win1,
                  !.lb = lb1]
    IN  IF out_idx >= 0 /\ out_idx < TOTAL_CHUNKS
        THEN [s1 EXCEPT !.fpc = "write"]
        ELSE V3_NextIter(s1)

\* apply_filter_wide: an iteration of Loop_Filter_Wide from its head up to
\* the stream write (or, when nothing is written, to the end of the
\* iteration); the stream read blocks while the FIFO is empty
V3_filter_fetch(s) ==
    LET iter == s.iter
        hd == V3_stream_front(s.stream_post)
        new_chunk == IF iter < TOTAL_CHUNKS THEN hd.data ELSE ZeroChunk
        col_idx == iter % CHUNKS_PER_ROW
        win1 == IF iter < TOTAL_CHUNKS
                THEN V3_ShiftFill(s.win, s.lb[0][col_idx], s.lb[1][col_idx], new_chunk)
                ELSE V3_ShiftFill(s.win, ZeroChunk, ZeroChunk, ZeroChunk)
        lb1 == IF iter < TOTAL_CHUNKS
               THEN [s.lb EXCEPT ![0][col_idx] = s.lb[1][col_idx],
                                 ![1][col_idx] = new_chunk]
               ELSE s.lb
        out_idx == V3_out_idx(iter)
        s1 == [s EXCEPT
                  !.stream_post = IF iter < TOTAL_CHUNKS
                                  THEN V3_stream_rest(s.stream_post)
                                  ELSE s.stream_post,
                  !.reads = IF iter < TOTAL_CHUNKS
                            THEN Append(s.reads, <<iter, hd.idx>>) ELSE s.reads,
                  !.win = win1,
                  !.lb = lb1]
    IN  IF out_idx >= 0 /\ out_idx < TOTAL_CHUNKS
        THEN [s1 EXCEPT !.fpc = "write"]
        ELSE V3_NextIter(s1)

V3_FilterFetch ==
    /\ v3.pc = "run"
    /\ v3.fpc = "fetch"
    /\ v3.iter < TOTAL_CHUNKS => Len(v3.stream_post) > 0
    /\ v3' = V3_filter_fetch(v3)
    /\ UNCHANGED <<cfg, img_A, img_B, A, B, v2, du, v0, v1>>

\* apply_filter_wide: Calc_64 and the stream write of the iteration
V3_filter_write(s) ==
    LET out_idx == V3_out_idx(s.iter)
    IN  V3_NextIter(
            [s EXCEPT !.stream_filt =
                          Append(s.stream_filt,
                                 [idx |-> Len(s.outs),
                                  data |-> V3_Calc_64(s.win, out_idx)]),
                      !.outs = Append(s.outs, <<s.iter, out_idx>>)])

V3_FilterWrite ==
    /\ v3.pc = "run"
    /\ v3.fpc = "write"
    /\ ~V3_stream_full(v3.stream_filt)
    /\ v3' = V3_filter_write(v3)
    /\ UNCHANGED <<cfg, img_A, img_B, A, B, v2, du, v0, v1>>

\* apply_filter_wide: the function returns
V3_FilterReturn ==
    /\ v3.pc = "run"
    /\ v3.fpc = "exit"
    /\ v3' = [v3 EXCEPT !.fpc = "done"]
    /\ UNCHANGED <<cfg, img_A, img_B, A, B, v2, du, v0, v1>>

\* mutant: a sink that looks at the head of the stream without taking it
V3_write_result_wide_NoPop(s) ==
    [s EXCEPT !.C[s.w] = V3_stream_front(s.stream_filt).data,
              !.stores = Append(s.stores, <<s.w, V3_stream_front(s.stream_filt).idx>>),
              !.w = s.w + 1]

\* write_result_wide: one iteration of Loop_Write
V3_write_result_wide(s) ==
    [s EXCEPT !.C[s.w] = V3_stream_front(s.stream_filt).data,
              !.stores = Append(s.stores, <<s.w, V3_stream_front(s.stream_filt).idx>>),
              !.stream_filt = V3_stream_rest(s.stream_filt),
              !.w = s.w + 1]

V3_Write ==
    /\ v3.pc = "run"
    /\ v3.w < TOTAL_CHUNKS
    /\ Len(v3.stream_filt) > 0
    /\ v3' = V3_write_result_wide(v3)
    /\ UNCHANGED <<cfg, img_A, img_B, A, B, v2, du, v0, v1>>

\* write_result_wide: the loop is left and the function returns
V3_WriteReturn ==
    /\ v3.pc = "run"
    /\ v3.wpc = "loop"
    /\ v3.w = TOTAL_CHUNKS
    /\ v3' = [v3 EXCEPT !.wpc = "done"]
    /\ UNCHANGED <<cfg, img_A, img_B, A, B, v2, du, v0, v1>>

\* state at kernel entry
V3_Entry ==
    [pc |-> "run", i |-> 0, dpc |-> "loop", wpc |-> "loop",
     stream_post |-> <<>>, stream_filt |-> <<>>,
     fpc |-> "init", lb |-> <<>>, win |-> <<>>, iter |-> 0,
     w |-> 0,
     C |-> [c \in ChunkIdx |-> ZeroChunk],
     reads |-> <<>>, outs |-> <<>>, stores |-> <<>>, run |-> 1]

\* the dataflow region returns when its three processes have returned
V3_Finished(s) ==
    /\ s.pc = "run" /\ s.i = TOTAL_CHUNKS /\ s.fpc = "done" /\ s.w = TOTAL_CHUNKS
    /\ s.dpc = "done" /\ s.wpc = "done"

\* the next invocation of the kernel: the two streams are static and keep
\* their contents, the locals of the stages take the storage of the
\* previous invocation, and the host passes the same output buffer
V3_Reenter(s) ==
    [s EXCEPT !.i = 0, !.fpc = "init", !.w = 0,
              !.dpc = "loop", !.wpc = "loop",
              !.reads = <<>>, !.outs = <<>>, !.stores = <<>>,
              !.run = s.run + 1]

(***************************************************************************)
(* V0 (accelerated_v0.cpp): three sequential stages over flat full-frame   *)
(* buffers of IMAGE_SIZE bytes.  The kernel state is the record v0:        *)
(*   pc     - "posterize" | "filter" | "pack" | "done"                     *)
(*   C_tmp, C_filt - the static buffers, indexed 0 .. IMAGE_SIZE-1         *)
(*   C      - the output port                                              *)
(***************************************************************************)
V0_CHUNK_COUNT == IMAGE_SIZE \div PIXELS_PER_CHUNK

V0_posterize(abs_diff) ==
    U8(IF abs_diff < THRESH_LOW THEN 0
       ELSE IF abs_diff < THRESH_HIGH THEN 128 ELSE 255)

V0_clip_u8(x) == U8(IF x < 0 THEN 0 ELSE IF x > 255 THEN 255 ELSE x)

\* Posterize_Main_Loop: chunk chunk_idx fills C_tmp[chunk_idx*P .. +P-1]
V0_Posterize_Main_Loop(s) ==
    [s EXCEPT
        !.pc = "filter",
        !.C_tmp =
            [idx \in 0 .. (IMAGE_SIZE - 1) |->
                IF idx < V0_CHUNK_COUNT * PIXELS_PER_CHUNK
                THEN LET chunk_idx == idx \div PIXELS_PER_CHUNK
                         k == idx % PIXELS_PER_CHUNK
                         pA == A[chunk_idx][k]
                         pB == B[chunk_idx][k]
                         abs_diff == U8(IF pA > pB THEN pA - pB ELSE pB - pA)
                     IN  V0_posterize(abs_diff)
                ELSE s.C_tmp[idx]]]

\* mutant: the rows of the flat buffer taken at the chunk count
V0_Filter_Row_Mut(s) ==
    [s EXCEPT
        !.pc = "pack",
        !.C_filt =
            [idx \in 0 .. (IMAGE_SIZE - 1) |->
                LET i == idx \div WIDTH
                    j == idx % WIDTH
                IN  IF i = 0 \/ j = 0 \/ i = HEIGHT - 1 \/ j = WIDTH - 1
                    THEN 0
                    ELSE V0_clip_u8(5 * s.C_tmp[idx]
                                    - s.C_tmp[idx - CHUNKS_PER_ROW]
                                    - s.C_tmp[idx + CHUNKS_PER_ROW]
                                    - s.C_tmp[idx - 1] - s.C_tmp[idx + 1])]]

\* Filter_Row / Filter_Col over idx = i*WIDTH + j
V0_Filter_Row(s) ==
    [s EXCEPT
        !.pc = "pack",
        !.C_filt =
            [idx \in 0 .. (IMAGE_SIZE - 1) |->
                LET i == idx \div WIDTH
                    j == idx % WIDTH
                IN  IF i = 0 \/ j = 0 \/ i = HEIGHT - 1 \/ j = WIDTH - 1
                    THEN 0
                    ELSE LET center == s.C_tmp[idx]
                             north == s.C_tmp[idx - WIDTH]
                             south == s.C_tmp[idx + WIDTH]
                             west == s.C_tmp[idx - 1]
                             east == s.C_tmp[idx + 1]
                         IN  V0_clip_u8(5 * center - north - south - west - east)]]

\* Pack_Main_Loop: chunks 0 .. CHUNK_COUNT-1 of the output are written
V0_Pack_Main_Loop(s) ==
    [s EXCEPT
        !.pc = "done",
        !.C = [chunk_idx \in ChunkIdx |->
                  IF chunk_idx < V0_CHUNK_COUNT
                  THEN [k \in Lanes |-> s.C_filt[chunk_idx * PIXELS_PER_CHUNK + k]]
                  ELSE s.C[chunk_idx]]]

\* state at kernel entry: zero-initialised statics, output buffer as the
\* host passes it
V0_Entry ==
    [pc |-> "posterize",
     C_tmp |-> [idx \in 0 .. (IMAGE_SIZE - 1) |-> 0],
     C_filt |-> [idx \in 0 .. (IMAGE_SIZE - 1) |-> 0],
     C |-> [c \in ChunkIdx |-> ZeroChunk]]

V0_Posterize == v0.pc = "posterize" /\ v0' = V0_Posterize_Main_Loop(v0)
                /\ UNCHANGED <<cfg, img_A, img_B, A, B, v2, v3, du, v1>>

V0_Filter == v0.pc = "filter" /\ v0' = V0_Filter_Row(v0)
             /\ UNCHANGED <<cfg, img_A, img_B, A, B, v2, v3, du, v1>>

V0_Pack == v0.pc = "pack" /\ v0' = V0_Pack_Main_Loop(v0)
           /\ UNCHANGED <<cfg, img_A, img_B, A, B, v2, v3, du, v1>>

(***************************************************************************)
(* V1 (accelerated_v1.cpp): three sequential stages over full-frame 2D     *)
(* buffers [HEIGHT][PADDED_WIDTH].  The kernel state is the record v1,     *)
(* with the fields of v0.                                                  *)
(***************************************************************************)
\* Posterize_Main_Loop: chunk chunk_idx fills C_tmp[row][col .. col+P-1]
V1_Posterize_Main_Loop(s) ==
    [s EXCEPT
        !.pc = "filter",
        !.C_tmp =
            [row \in 0 .. (HEIGHT - 1) |->
                [col \in 0 .. (PADDED_WIDTH - 1) |->
                    LET chunk_idx == row * CHUNKS_PER_ROW + (col \div PIXELS_PER_CHUNK)
                        k == col % PIXELS_PER_CHUNK
                        pA == A[chunk_idx][k]
                        pB == B[chunk_idx][k]
                        abs_diff == U8(IF pA > pB THEN pA - pB ELSE pB - pA)
                    IN  posterize(abs_diff)]]]

\* Filter_Row / Filter_Col: columns j < WIDTH are written, the padding
\* columns of C_filt keep what they hold
V1_Filter_Row(s) ==
    [s EXCEPT
        !.pc = "pack",
        !.C_filt =
            [i \in 0 .. (HEIGHT - 1) |->
                [j \in 0 .. (PADDED_WIDTH - 1) |->
                    IF j >= WIDTH THEN s.C_filt[i][j]
                    ELSE IF i = 0 \/ j = 0 \/ i = HEIGHT - 1 \/ j = WIDTH - 1
                    THEN 0
                    ELSE LET center == s.C_tmp[i][j]
                             north == s.C_tmp[i - 1][j]
                             south == s.C_tmp[i + 1][j]
                             west == s.C_tmp[i][j - 1]
                             east == s.C_tmp[i][j + 1]
                         IN  clip_u8(5 * center - north - south - west - east)]]]

\* Pack_Main_Loop
V1_Pack_Main_Loop(s) ==
    [s EXCEPT
        !.pc = "done",
        !.C = [chunk_idx \in ChunkIdx |->
                  LET row == chunk_idx \div CHUNKS_PER_ROW
                      col_base == (chunk_idx % CHUNKS_PER_ROW) * PIXELS_PER_CHUNK
                  IN  [k \in Lanes |-> s.C_filt[row][col_base + k]]]]

V1_Entry ==
    [pc |-> "posterize",
     C_tmp |-> [i \in 0 .. (HEIGHT - 1) |-> [j \in 0 .. (PADDED_WIDTH - 1) |-> 0]],
     C_filt |-> [i \in 0 .. (HEIGHT - 1) |-> [j \in 0 .. (PADDED_WIDTH - 1) |-> 0]],
     C |-> [c \in ChunkIdx |-> ZeroChunk]]

V1_Posterize == v1.pc = "posterize" /\ v1' = V1_Posterize_Main_Loop(v1)
                /\ UNCHANGED <<cfg, img_A, img_B, A, B, v2, v3, du, v0>>

V1_Filter == v1.pc = "filter" /\ v1' = V1_Filter_Row(v1)
             /\ UNCHANGED <<cfg, img_A, img_B, A, B, v2, v3, du, v0>>

V1_Pack == v1.pc = "pack" /\ v1' = V1_Pack_Main_Loop(v1)
           /\ UNCHANGED <<cfg, img_A, img_B, A, B, v2, v3, du, v0>>

(***************************************************************************)
(* Lab 1: the difference kernel (image_diff_accelarated.cpp) and the       *)
(* testbench with its software reference (tb_image_diff.cpp).  The         *)
(* testbench state is the record du:                                       *)
(*   pc    - "ref" | "hw" | "verify"                                       *)
(*   C_SW  - result of sw_reference_diff_posterize (flat pixels)           *)
(*   C_HW  - result of the lab-1 kernel (chunks)                           *)
(*   C_v2, C_v3 - the lab-2 difference units applied to the same chunks    *)
(***************************************************************************)
\* (int16_t) x
S16(x) == ((x + 32768) % 65536) - 32768

sw_reference_diff_posterize(a, b) ==
    [i \in 0 .. (IMAGE_SIZE - 1) |->
        LET diff == S16(S16(a[i]) - S16(b[i]))
            abs_diff == U8(IF diff < 0 THEN -diff ELSE diff)
        IN  IF abs_diff < THRESH_LOW THEN 0
            ELSE IF abs_diff < THRESH_HIGH THEN 128 ELSE 255]

\* (uint512_t*) img: pixel p is lane p mod 64 of word p div 64
Lab1_Words(img) ==
    [c \in 0 .. ((IMAGE_SIZE \div PIXELS_PER_CHUNK) - 1) |->
        [k \in Lanes |-> img[c * PIXELS_PER_CHUNK + k]]]

\* Process_Loop of the lab-1 kernel on one pair of words
Lab1_Process_Loop(chunk_A, chunk_B) ==
    [pixel_idx \in Lanes |->
        LET pixel_A == chunk_A[pixel_idx]
            pixel_B == chunk_B[pixel_idx]
            diff == S16(S16(pixel_A) - S16(pixel_B))
            abs_diff == U8(IF diff < 0 THEN -diff ELSE diff)
        IN  IF abs_diff < THRESH_LOW THEN 0
            ELSE IF abs_diff < THRESH_HIGH THEN 128 ELSE 255]

\* Main_Loop of the lab-1 kernel
Lab1_IMAGE_DIFF_POSTERIZE(wA, wB) ==
    [chunk_idx \in DOMAIN wA |-> Lab1_Process_Loop(wA[chunk_idx], wB[chunk_idx])]

DU_Entry == [pc |-> "ref", C_SW |-> <<>>, C_HW |-> <<>>, C_v2 |-> <<>>, C_v3 |-> <<>>]

\* tb_image_diff.cpp step 2
DU_Reference ==
    /\ du.pc = "ref"
    /\ du' = [du EXCEPT !.pc = "hw",
                        !.C_SW = sw_reference_diff_posterize(img_A, img_B)]
    /\ UNCHANGED <<cfg, img_A, img_B, A, B, v2, v3, v0, v1>>

\* tb_image_diff.cpp step 3, and the lab-2 difference units on the same words
DU_Kernel ==
    /\ du.pc = "hw"
    /\ du' = [du EXCEPT
                 !.pc = "verify",
                 !.C_HW = Lab1_IMAGE_DIFF_POSTERIZE(Lab1_Words(img_A), Lab1_Words(img_B)),
                 !.C_v2 = [c \in DOMAIN A |-> V2_Process_64_Pixels(A[c], B[c])],
                 !.C_v3 = [c \in DOMAIN A |-> V3_Process_64_Pixels(A[c], B[c])]]
    /\ UNCHANGED <<cfg, img_A, img_B, A, B, v2, v3, v0, v1>>

(***************************************************************************)
(* Host application (host.cpp): software reference on compact images and   *)
(* the row padding of the device buffers.                                  *)
(***************************************************************************)
BUFFER_SIZE_BYTES == TOTAL_CHUNKS * PIXELS_PER_CHUNK

\* mutant: rows copied back to back, without the padded stride
pad_pixels_NoStride(image_data) ==
    [b \in 0 .. (BUFFER_SIZE_BYTES - 1) |->
        IF b < IMAGE_SIZE THEN image_data[b] ELSE 0]

\* pad_pixels: memset of the whole buffer, then one memcpy of WIDTH bytes
\* per row to offset r * PADDED_WIDTH
pad_pixels(image_data) ==
    [b \in 0 .. (BUFFER_SIZE_BYTES - 1) |->
        LET r == b \div PADDED_WIDTH
            col == b % PADDED_WIDTH
        IN  IF col < WIDTH THEN image_data[r * WIDTH + col] ELSE 0]

\* unpad_pixels: one memcpy of WIDTH bytes per row from offset
\* r * PADDED_WIDTH
unpad_pixels(hw_buffer) ==
    [p \in 0 .. (IMAGE_SIZE - 1) |->
        hw_buffer[(p \div WIDTH) * PADDED_WIDTH + (p % WIDTH)]]

\* sw_reference, stage 1: int diff
host_C_post(a, b) ==
    [i \in 0 .. (IMAGE_SIZE - 1) |->
        LET d0 == a[i] - b[i]
            diff == IF d0 < 0 THEN -d0 ELSE d0
        IN  U8(IF diff < THRESH_LOW THEN 0
               ELSE IF diff < THRESH_HIGH THEN 128 ELSE 255)]

\* sw_reference, stage 2: the stencil value is held in an int16_t
host_sw_reference(a, b) ==
    LET C_post == host_C_post(a, b)
    IN  [idx \in 0 .. (IMAGE_SIZE - 1) |->
            LET r == idx \div WIDTH
                c == idx % WIDTH
            IN  IF r = 0 \/ r = HEIGHT - 1 \/ c = 0 \/ c = WIDTH - 1
                THEN 0
                ELSE LET val == S16(5 * C_post[idx] - C_post[idx - WIDTH]
                                    - C_post[idx + WIDTH] - C_post[idx - 1]
                                    - C_post[idx + 1])
                     IN  U8(IF val < 0 THEN 0 ELSE IF val > 255 THEN 255 ELSE val)]

(***************************************************************************)
(* Inputs: the testbench generates two logical images and packs them.      *)
(***************************************************************************)
\* the build without stream bound: a write never waits in it, so every
\* behaviour of the synthesised build is one of its behaviours too
Configs ==
    [H : MinDim .. MaxH, W : MinDim .. MaxW, P : 1 .. MaxP, D : {STREAM_DEPTH},
     TL : {THRESH_LOW_DEFINED}, TH : {THRESH_HIGH_DEFINED}, SYNTH : {FALSE}]

\* <<a, b>> sample pairs: |a-b| = 0, 60, 250, and a second equal pair
LevelPairs == {<<200, 200>>, <<100, 40>>, <<5, 255>>}
PixelPairs == LevelPairs \cup {<<7, 7>>}

\* images of the middle level except for at most two marked samples
PairGrids2(n) ==
    {[i \in 0 .. (n - 1) |->
         IF i = m1 THEN p1 ELSE IF i = m2 THEN p2 ELSE <<100, 40>>] :
        p1 \in LevelPairs, p2 \in LevelPairs,
        m1 \in 0 .. (n - 1), m2 \in 0 .. (n - 1)}

\* images that are uniform except for at most one marked sample
PairGrids1(n) ==
    {[i \in 0 .. (n - 1) |-> IF i = m1 THEN p1 ELSE bg] :
        bg \in PixelPairs, p1 \in PixelPairs, m1 \in 0 .. (n - 1)}

DuIdle == [pc |-> "idle"]

InitImages(grids) ==
    /\ \E g \in grids :
          /\ img_A = [i \in DOMAIN g |-> g[i][1]]
          /\ img_B = [i \in DOMAIN g |-> g[i][2]]
    /\ A = pack_pixels_fast(img_A)
    /\ B = pack_pixels_fast(img_B)

InitV2 ==
    /\ cfg \in Configs
    /\ InitImages(PairGrids2(cfg.H * cfg.W) \cup PairGrids1(cfg.H * cfg.W))
    /\ v2 = V2_Entry
    /\ v3 = V3_Entry
    /\ du = DuIdle
    /\ v0 = V0_Entry
    /\ v1 = V1_Entry

NextV2 == V2_Posterize \/ V2_Filter \/ V2_Write

SpecV2 == InitV2 /\ [][NextV2]_vars

\* the pipelined kernel is explored on inputs on which the sequential
\* kernel has already run to its return (SpecV2 explores its steps)
InitV3 ==
    /\ cfg \in {c \in Configs :
                  c.H * ((c.W + c.P - 1) \div c.P) <= MaxPipeChunks}
    /\ InitImages(PairGrids1(cfg.H * cfg.W))
    /\ v2 = V2_Run(V2_Entry)
    /\ v3 = V3_Entry
    /\ du = DuIdle
    /\ v0 = V0_Entry
    /\ v1 = V1_Entry

NextV3 ==
    \/ V3_Diff \/ V3_DiffReturn
    \/ V3_FilterInit \/ V3_FilterFetch \/ V3_FilterWrite \/ V3_FilterReturn
    \/ V3_Write \/ V3_WriteReturn

SpecV3 == InitV3 /\ [][NextV3]_vars

\* the pipelined kernel on one-column-of-chunks-per-pixel geometries, short
\* and tall, with streams of depth 1 .. MaxDepth and of the depth of the
\* source; the tall geometry has more chunks than the deepest stream holds
\* (20 against 16), in both builds
PipeConfigs ==
    [H : {MinDim, PipeH}, W : {MaxW}, P : {1},
     D : (1 .. MaxDepth) \cup {STREAM_DEPTH},
     TL : {THRESH_LOW_DEFINED}, TH : {THRESH_HIGH_DEFINED}, SYNTH : BOOLEAN]

\* middle-level images with one marked sample near the centre
PipeGrids(n) ==
    {[i \in 0 .. (n - 1) |-> IF i = m1 THEN <<5, 255>> ELSE <<100, 40>>] :
        m1 \in {n \div 2, (n \div 2) + 1}}

InitPipe ==
    /\ cfg \in PipeConfigs
    /\ InitImages(PipeGrids(cfg.H * cfg.W))
    /\ v2 = V2_Entry
    /\ v3 = V3_Entry
    /\ du = DuIdle
    /\ v0 = V0_Entry
    /\ v1 = V1_Entry

SpecPipe == InitPipe /\ [][NextV3]_vars

\* the three dataflow processes run concurrently in hardware: none of them
\* is held back for ever while it can take a step
SpecPipeFair ==
    /\ InitPipe
    /\ [][NextV3]_vars
    /\ WF_vars(V3_Diff \/ V3_DiffReturn)
    /\ WF_vars(V3_FilterInit \/ V3_FilterFetch \/ V3_FilterWrite \/ V3_FilterReturn)
    /\ WF_vars(V3_Write \/ V3_WriteReturn)

\* two invocations in a row: the host runs both kernels on one pair of
\* images and, when both have returned, on a second pair
RunConfigs ==
    [H : {MinDim}, W : {MinDim}, P : {1, MaxP}, D : {STREAM_DEPTH},
     TL : {THRESH_LOW_DEFINED}, TH : {THRESH_HIGH_DEFINED}, SYNTH : {FALSE}]

\* a marked middle-level image, a marked high-level image, an equal pair
RunGrids(n) ==
    {[i \in 0 .. (n - 1) |-> IF i = n \div 2 THEN <<5, 255>> ELSE <<100, 40>>],
     [i \in 0 .. (n - 1) |-> IF i = n \div 2 THEN <<200, 200>> ELSE <<5, 255>>],
     [i \in 0 .. (n - 1) |-> <<7, 7>>]}

InitRuns ==
    /\ cfg \in RunConfigs
    /\ InitImages(RunGrids(cfg.H * cfg.W))
    /\ v2 = V2_Entry
    /\ v3 = V3_Entry
    /\ du = DuIdle
    /\ v0 = V0_Entry
    /\ v1 = V1_Entry

Relaunch ==
    /\ v2.pc = "done"
    /\ V3_Finished(v3)
    /\ v2.run < MaxRuns
    /\ \E g \in RunGrids(cfg.H * cfg.W) :
          /\ img_A' = [i \in DOMAIN g |-> g[i][1]]
          /\ img_B' = [i \in DOMAIN g |-> g[i][2]]
    /\ A' = pack_pixels_fast(img_A')
    /\ B' = pack_pixels_fast(img_B')
    /\ v2' = V2_Reenter(v2)
    /\ v3' = V3_Reenter(v3)
    /\ UNCHANGED <<cfg, du, v0, v1>>

NextRuns == NextV2 \/ NextV3 \/ Relaunch

SpecRuns == InitRuns /\ [][NextRuns]_vars

\* builds of the kernels with the threshold macros as defined, exchanged,
\* and equal: the source has no check on them, so every build runs
ThresholdConfigs ==
    [H : {MinDim}, W : {MinDim}, P : {1}, D : {STREAM_DEPTH},
     TL : {THRESH_LOW_DEFINED, THRESH_HIGH_DEFINED},
     TH : {THRESH_LOW_DEFINED, THRESH_HIGH_DEFINED}, SYNTH : {FALSE}]

InitCfg ==
    /\ cfg \in ThresholdConfigs
    /\ InitImages(RunGrids(cfg.H * cfg.W))
    /\ v2 = V2_Entry
    /\ v3 = V3_Entry
    /\ du = DuIdle
    /\ v0 = V0_Entry
    /\ v1 = V1_Entry

NextCfg == NextV2 \/ NextV3

SpecCfg == InitCfg /\ [][NextCfg]_vars

\* the four kernel versions on the same inputs: widths that are and are
\* not a multiple of the chunk width; V0 and V1 are stepped, V2 has run to
\* its return, and V3 is stepped once V0 and V1 have returned
VersionConfigs ==
    [H : {MinDim}, W : {MinDim, 2 * MaxP}, P : {1, MaxP}, D : {STREAM_DEPTH},
     TL : {THRESH_LOW_DEFINED}, TH : {THRESH_HIGH_DEFINED}, SYNTH : {FALSE}]

InitVersions ==
    /\ cfg \in VersionConfigs
    /\ InitImages(PairGrids1(cfg.H * cfg.W))
    /\ v2 = V2_Run(V2_Entry)
    /\ v3 = V3_Entry
    /\ du = DuIdle
    /\ v0 = V0_Entry
    /\ v1 = V1_Entry

NextVersions ==
    \/ V0_Posterize \/ V0_Filter \/ V0_Pack
    \/ V1_Posterize \/ V1_Filter \/ V1_Pack
    \/ (v0.pc = "done" /\ v1.pc = "done" /\ NextV3)

SpecVersions == InitVersions /\ [][NextVersions]_vars

\* the sequential kernel called on device buffers whose padding lanes
\* (columns >= WIDTH of each padded row) are not zero: the kernel takes
\* raw pointers, so the padding is whatever the caller left there.  Widths
\* that are not a multiple of the chunk width; padrow[r] is the pair of
\* values in the padding lanes of row r of A and of B
PadConfigs ==
    [H : {MinDim}, W : {MinDim}, P : {MaxP}, D : {STREAM_DEPTH},
     TL : {THRESH_LOW_DEFINED}, TH : {THRESH_HIGH_DEFINED}, SYNTH : {FALSE}]

WithPadding(chunks, padrow, side) ==
    [c \in ChunkIdx |->
        [k \in Lanes |->
            LET b == c * PIXELS_PER_CHUNK + k
            IN  IF (b % PADDED_WIDTH) < WIDTH THEN chunks[c][k]
                ELSE padrow[b \div PADDED_WIDTH][side]]]

InitPad ==
    /\ cfg \in PadConfigs
    /\ \E g \in PairGrids1(cfg.H * cfg.W) :
          /\ img_A = [i \in DOMAIN g |-> g[i][1]]
          /\ img_B = [i \in DOMAIN g |-> g[i][2]]
    /\ \E padrow \in [0 .. (cfg.H - 1) -> LevelPairs] :
          /\ A = WithPadding(pack_pixels_fast(img_A), padrow, 1)
          /\ B = WithPadding(pack_pixels_fast(img_B), padrow, 2)
    /\ v2 = V2_Entry
    /\ v3 = V3_Entry
    /\ du = DuIdle
    /\ v0 = V0_Entry
    /\ v1 = V1_Entry

SpecPad == InitPad /\ [][NextV2]_vars

(***************************************************************************)
(* The two programs that drive the kernel, one per behaviour (du.prog).    *)
(* "tb" is the testbench (hls_tb.cpp main): it packs img_A and img_B into  *)
(* hw_A and hw_B (the variables A and B), calls the kernel, which writes   *)
(* hw_C (v2.C), and unpacks hw_C.  "host" is host.cpp main: it pads        *)
(* image_A and image_B into byte buffers, hands them to the device (A and  *)
(* B are the device's view of them as 512-bit words), launches the kernel, *)
(* takes the result back into padded_C and unpads padded_C.  All buffers   *)
(* are zero when a program starts (static storage, value-initialised       *)
(* vectors).                                                               *)
(***************************************************************************)
PackConfigs ==
    [H : MinDim .. MaxH, W : MinDim .. MaxW, P : 1 .. MaxP, D : {STREAM_DEPTH},
     TL : {THRESH_LOW_DEFINED}, TH : {THRESH_HIGH_DEFINED}, SYNTH : {FALSE}]

\* images whose samples are all non-zero and pairwise different for
\* neighbouring positions
RampGrids(n) ==
    {[i \in 0 .. (n - 1) |-> <<U8(s + 37 * i), U8(255 - 3 * i)>>] : s \in {11, 130}}

ZeroChunks == [c \in ChunkIdx |-> [k \in Lanes |-> 0]]

ZeroBytes == [b \in 0 .. (BUFFER_SIZE_BYTES - 1) |-> 0]

ZeroImage == [p \in 0 .. (IMAGE_SIZE - 1) |-> 0]

\* a byte buffer seen through a uint512_t pointer, and back
ChunksOfBytes(bytes) ==
    [c \in ChunkIdx |-> [k \in Lanes |-> bytes[c * PIXELS_PER_CHUNK + k]]]

BytesOfChunks(chunks) ==
    [b \in 0 .. (BUFFER_SIZE_BYTES - 1) |->
        chunks[b \div PIXELS_PER_CHUNK][b % PIXELS_PER_CHUNK]]

TB_Entry == [prog |-> "tb", pc |-> "pack", img_C_HW_Unpacked |-> ZeroImage]

Host_Entry ==
    [prog |-> "host", pc |-> "pad",
     padded_A |-> ZeroBytes, padded_B |-> ZeroBytes, padded_C |-> ZeroBytes,
     hw_result_unpadded |-> ZeroImage]

InitPack ==
    /\ cfg \in PackConfigs
    /\ \E g \in PairGrids1(cfg.H * cfg.W) \cup RampGrids(cfg.H * cfg.W) :
          /\ img_A = [i \in DOMAIN g |-> g[i][1]]
          /\ img_B = [i \in DOMAIN g |-> g[i][2]]
    /\ A = ZeroChunks
    /\ B = ZeroChunks
    /\ du \in {TB_Entry, Host_Entry}
    /\ v2 = V2_Entry
    /\ v3 = V3_Entry
    /\ v0 = V0_Entry
    /\ v1 = V1_Entry

\* hls_tb.cpp step 4
TB_Pack ==
    /\ du.prog = "tb"
    /\ du.pc = "pack"
    /\ A' = pack_pixels_fast(img_A)
    /\ B' = pack_pixels_fast(img_B)
    /\ du' = [du EXCEPT !.pc = "kernel"]
    /\ UNCHANGED <<cfg, img_A, img_B, v2, v3, v0, v1>>

\* hls_tb.cpp step 5: the call of the kernel, from entry to return
TB_Kernel ==
    /\ du.prog = "tb"
    /\ du.pc = "kernel"
    /\ v2' = V2_Run(V2_Entry)
    /\ du' = [du EXCEPT !.pc = "unpack"]
    /\ UNCHANGED <<cfg, img_A, img_B, A, B, v3, v0, v1>>

\* hls_tb.cpp step 6
TB_Unpack ==
    /\ du.prog = "tb"
    /\ du.pc = "unpack"
    /\ du' = [du EXCEPT !.pc = "done",
                        !.img_C_HW_Unpacked = unpack_pixels_fast(v2.C)]
    /\ UNCHANGED <<cfg, img_A, img_B, A, B, v2, v3, v0, v1>>

\* host.cpp step 4
Host_Pad ==
    /\ du.prog = "host"
    /\ du.pc = "pad"
    /\ du' = [du EXCEPT !.pc = "to_device",
                        !.padded_A = pad_pixels(img_A),
                        !.padded_B = pad_pixels(img_B)]
    /\ UNCHANGED <<cfg, img_A, img_B, A, B, v2, v3, v0, v1>>

\* host.cpp: buffer_A and buffer_B migrate to the device
Host_MigrateIn ==
    /\ du.prog = "host"
    /\ du.pc = "to_device"
    /\ A' = ChunksOfBytes(du.padded_A)
    /\ B' = ChunksOfBytes(du.padded_B)
    /\ du' = [du EXCEPT !.pc = "launch"]
    /\ UNCHANGED <<cfg, img_A, img_B, v2, v3, v0, v1>>

\* host.cpp: enqueueTask, the kernel from entry to return
Host_Launch ==
    /\ du.prog = "host"
    /\ du.pc = "launch"
    /\ v2' = V2_Run(V2_Entry)
    /\ du' = [du EXCEPT !.pc = "from_device"]
    /\ UNCHANGED <<cfg, img_A, img_B, A, B, v3, v0, v1>>

\* host.cpp: buffer_C migrates back to the host
Host_MigrateOut ==
    /\ du.prog = "host"
    /\ du.pc = "from_device"
    /\ du' = [du EXCEPT !.pc = "unpad", !.padded_C = BytesOfChunks(v2.C)]
    /\ UNCHANGED <<cfg, img_A, img_B, A, B, v2, v3, v0, v1>>

\* host.cpp: Unpad Output
Host_Unpad ==
    /\ du.prog = "host"
    /\ du.pc = "unpad"
    /\ du' = [du EXCEPT !.pc = "done",
                        !.hw_result_unpadded = unpad_pixels(du.padded_C)]
    /\ UNCHANGED <<cfg, img_A, img_B, A, B, v2, v3, v0, v1>>

NextPack ==
    \/ TB_Pack \/ TB_Kernel \/ TB_Unpack
    \/ Host_Pad \/ Host_MigrateIn \/ Host_Launch \/ Host_MigrateOut \/ Host_Unpad

SpecPack == InitPack /\ [][NextPack]_vars

\* one word per image; lane k0 takes every pair of 8-bit values, the other
\* lanes hold a fixed pair
InitDiff ==
    /\ cfg = [H |-> 1, W |-> MaxP, P |-> MaxP, D |-> STREAM_DEPTH,
              TL |-> THRESH_LOW_DEFINED, TH |-> THRESH_HIGH_DEFINED,
              SYNTH |-> FALSE]
    /\ \E k0 \in 0 .. (MaxP - 1), a \in Pixels, b \in Pixels :
          /\ img_A = [i \in 0 .. (MaxP - 1) |-> IF i = k0 THEN a ELSE 5]
          /\ img_B = [i \in 0 .. (MaxP - 1) |-> IF i = k0 THEN b ELSE 255]
    /\ A = Lab1_Words(img_A)
    /\ B = Lab1_Words(img_B)
    /\ v2 = V2_Entry
    /\ v3 = V3_Entry
    /\ du = DU_Entry
    /\ v0 = V0_Entry
    /\ v1 = V1_Entry

NextDiff == DU_Reference \/ DU_Kernel

SpecDiff == InitDiff /\ [][NextDiff]_vars

(***************************************************************************)
(* Reference notions used by the properties.                               *)
(***************************************************************************)
AbsDiff(a, b) == IF a >= b THEN a - b ELSE b - a

Level(d) == IF d < THRESH_LOW THEN LOW ELSE IF d < THRESH_HIGH THEN MID ELSE HIGH

Clip(v) == IF v < 0 THEN 0 ELSE IF v > 255 THEN 255 ELSE v

\* the quantized difference grid, as chunks
Q == [i \in ChunkIdx |-> [k \in Lanes |-> Level(AbsDiff(A[i][k], B[i][k]))]]

\* sample (r, c) of a chunk array, c a column of the padded row
At(chunks, r, c) ==
    chunks[r * CHUNKS_PER_ROW + (c \div PIXELS_PER_CHUNK)][c % PIXELS_PER_CHUNK]

(***************************************************************************)
(* C1: on the same inputs the pipelined kernel (V3), under every           *)
(* interleaving of its three stages, writes to every output chunk C[i]     *)
(* the value the sequential kernel (V2) writes, and when it has finished   *)
(* it has written all TOTAL_CHUNKS chunks.                                 *)
(***************************************************************************)
C1_PipelinedEqualsSequential ==
    /\ v2.pc = "done"
    /\ \A i \in 0 .. (v3.w - 1) : v3.C[i] = v2.C[i]
    /\ V3_Finished(v3) => v3.w = TOTAL_CHUNKS /\ v3.C = v2.C

\* a finished pipelined run whose output has a non-zero interior sample
C1_Witness ==
    /\ V3_Finished(v3)
    /\ \E i \in ChunkIdx, k \in Lanes : v3.C[i][k] # 0

(***************************************************************************)
(* C2: when V2 has finished, the unpacked output equals the flat software  *)
(* reference at every position (r, c) of the H x W image: 0 on the border, *)
(* otherwise clip(5*Q[r][c] - Q[r-1][c] - Q[r+1][c] - Q[r][c-1] -          *)
(* Q[r][c+1]) over the quantized difference grid Q.                        *)
(***************************************************************************)
C2_EngineEqualsFlatReference ==
    v2.pc = "done" =>
        /\ unpack_pixels_fast(v2.C) = sw_reference_logical(img_A, img_B)
        /\ \A r \in 0 .. (HEIGHT - 1), c \in 0 .. (WIDTH - 1) :
              At(v2.C, r, c) =
                 IF r = 0 \/ r = HEIGHT - 1 \/ c = 0 \/ c = WIDTH - 1
                 THEN 0
                 ELSE Clip(5 * At(Q, r, c) - At(Q, r - 1, c) - At(Q, r + 1, c)
                           - At(Q, r, c - 1) - At(Q, r, c + 1))

\* a finished run on a padded geometry with two chunks per row whose
\* output has an interior sample that is neither 0 nor 255
C2_Witness ==
    /\ v2.pc = "done"
    /\ CHUNKS_PER_ROW >= 2
    /\ PADDED_WIDTH > WIDTH
    /\ \E r \in 1 .. (HEIGHT - 2), c \in 1 .. (WIDTH - 2) :
          At(v2.C, r, c) \notin {0, 255}

(***************************************************************************)
(* C3: every output sample of the pipelined kernel whose row is 0 or H-1,  *)
(* or whose column j = chunk_col*P + k is 0 or W-1, is 0: in every chunk   *)
(* the window stage has put on its output stream and in every chunk        *)
(* written to C.                                                           *)
(***************************************************************************)
BorderLanesZero(chunk, out_idx) ==
    \A k \in Lanes :
        LET row == out_idx \div CHUNKS_PER_ROW
            j == (out_idx % CHUNKS_PER_ROW) * PIXELS_PER_CHUNK + k
        IN  (row = 0 \/ row = HEIGHT - 1 \/ j = 0 \/ j = WIDTH - 1) => chunk[k] = 0

C3_BorderIsZero ==
    /\ \A n \in 1 .. Len(v3.stream_filt) :
          BorderLanesZero(v3.stream_filt[n].data, v3.stream_filt[n].idx)
    /\ \A i \in 0 .. (v3.w - 1) : BorderLanesZero(v3.C[i], i)

\* an interior-row chunk written to C that holds a border lane next to a
\* non-zero lane, from inputs that differ on the border as well
C3_Witness ==
    /\ \E i \in 0 .. (v3.w - 1), k \in Lanes, k2 \in Lanes :
          /\ i \div CHUNKS_PER_ROW \in 1 .. (HEIGHT - 2)
          /\ (i % CHUNKS_PER_ROW) * PIXELS_PER_CHUNK + k = WIDTH - 1
          /\ v3.C[i][k2] # 0
    /\ \A p \in DOMAIN img_A : img_A[p] # img_B[p]

(***************************************************************************)
(* C4: the sequence of out_idx values the window stage of V3 emits is      *)
(* strictly increasing, and over a complete run of the stage it is exactly *)
(* 0, 1, ..., TOTAL_CHUNKS-1: TOTAL_CHUNKS chunks, each index once.        *)
(***************************************************************************)
C4_EmitsEachIndexOnceInOrder ==
    /\ \A n \in 1 .. (Len(v3.outs) - 1) : v3.outs[n][2] < v3.outs[n + 1][2]
    /\ v3.fpc = "done" =>
          /\ Len(v3.outs) = TOTAL_CHUNKS
          /\ \A n \in 1 .. TOTAL_CHUNKS : v3.outs[n][2] = n - 1
          /\ \A o \in ChunkIdx :
                Cardinality({n \in 1 .. Len(v3.outs) : v3.outs[n][2] = o}) = 1

\* the window stage has completed its loop while the sink is still writing
C4_Witness ==
    /\ v3.fpc = "done"
    /\ v3.iter = V3_LOOP_LIMIT
    /\ v3.w < TOTAL_CHUNKS
    /\ Len(v3.outs) >= 9

(***************************************************************************)
(* C5: Filter_Loop of V2 runs iterations 0 .. TOTAL_CHUNKS+CHUNKS_PER_ROW  *)
(* and then stops; it emits a chunk at iteration iter exactly when         *)
(* CHUNKS_PER_ROW+1 <= iter <= TOTAL_CHUNKS+CHUNKS_PER_ROW, and the chunk  *)
(* emitted then has out_idx = iter - (CHUNKS_PER_ROW+1).                   *)
(***************************************************************************)
C5_Emitted(s, iter) == \E n \in 1 .. Len(s.outs) : s.outs[n][1] = iter

C5_IterationsAndLag ==
    /\ v2.iter <= TOTAL_CHUNKS + CHUNKS_PER_ROW + 1
    /\ v2.pc \in {"write", "done"} => v2.iter = TOTAL_CHUNKS + CHUNKS_PER_ROW + 1
    /\ v2.pc = "filter" =>
          \A it \in 0 .. (v2.iter - 1) :
              C5_Emitted(v2, it) <=>
                 (CHUNKS_PER_ROW + 1 <= it /\ it <= TOTAL_CHUNKS + CHUNKS_PER_ROW)
    /\ \A n \in 1 .. Len(v2.outs) :
          v2.outs[n][2] = v2.outs[n][1] - (CHUNKS_PER_ROW + 1)

\* the loop has just run its last iteration, which emitted the last chunk
C5_Witness ==
    /\ v2.pc = "filter"
    /\ v2.iter = TOTAL_CHUNKS + CHUNKS_PER_ROW + 1
    /\ Len(v2.outs) = TOTAL_CHUNKS
    /\ v2.outs[Len(v2.outs)] = <<TOTAL_CHUNKS + CHUNKS_PER_ROW, TOTAL_CHUNKS - 1>>

(***************************************************************************)
(* C6: the window stage of V3 reads the stream exactly once in each        *)
(* iteration iter < TOTAL_CHUNKS and the chunk it gets there is quantized  *)
(* chunk number iter; in the iterations iter >= TOTAL_CHUNKS it reads      *)
(* nothing and takes an all-zero chunk; over the run it reads exactly      *)
(* TOTAL_CHUNKS chunks.                                                    *)
(***************************************************************************)
\* number of iterations of Loop_Filter_Wide whose read has been done
V3_Fetched(s) ==
    IF s.fpc = "init" THEN 0 ELSE IF s.fpc = "write" THEN s.iter + 1 ELSE s.iter

C6_ConsumesChunkIterThenZero ==
    LET f == V3_Fetched(v3)
    IN  /\ Len(v3.reads) = (IF f < TOTAL_CHUNKS THEN f ELSE TOTAL_CHUNKS)
        /\ \A n \in 1 .. Len(v3.reads) : v3.reads[n] = <<n - 1, n - 1>>
        /\ (f >= 1 /\ f <= TOTAL_CHUNKS) => v3.win[2][2] = Q[f - 1]
        /\ f > TOTAL_CHUNKS => v3.win[2][2] = ZeroChunk
        /\ v3.fpc = "done" => f = TOTAL_CHUNKS + CHUNKS_PER_ROW + 1

\* a drain iteration has taken its zero chunk after TOTAL_CHUNKS reads of
\* chunks that are not all alike
C6_Witness ==
    /\ v3.fpc \in {"fetch", "write"}
    /\ V3_Fetched(v3) > TOTAL_CHUNKS
    /\ Len(v3.reads) = TOTAL_CHUNKS
    /\ \E i \in ChunkIdx : Q[i] # Q[0] /\ Q[i] # ZeroChunk

(***************************************************************************)
(* C7 as stated: at every iteration of Filter_Loop that emits a chunk,     *)
(* after the shift and fill of that iteration, win[1][1] is the quantized  *)
(* chunk Q[out_idx].                                                       *)
(***************************************************************************)
\* the iteration Filter_Loop has just run, and its out_idx
C7_LastIter == v2.iter - 1

C7_OutIdx == C7_LastIter - (CHUNKS_PER_ROW + 1)

C7_Emitting ==
    /\ v2.pc = "filter"
    /\ v2.iter >= 1
    /\ C7_OutIdx >= 0
    /\ C7_OutIdx < TOTAL_CHUNKS

C7_CenterAlwaysChunkOutIdx ==
    C7_Emitting => v2.win[1][1] = Q[C7_OutIdx]

(***************************************************************************)
(* C7 amended: at every emitting iteration iter <= TOTAL_CHUNKS (the       *)
(* chunks of rows 0 .. H-2) win[1][1] is the quantized chunk Q[out_idx];   *)
(* at the emitting iterations iter > TOTAL_CHUNKS (the chunks of the last  *)
(* row) win[1][1] is the all-zero chunk shifted in by the drain.           *)
(***************************************************************************)
C7_CenterChunkUntilDrain ==
    C7_Emitting =>
        /\ C7_LastIter <= TOTAL_CHUNKS => v2.win[1][1] = Q[C7_OutIdx]
        /\ C7_LastIter > TOTAL_CHUNKS => v2.win[1][1] = ZeroChunk

\* an emitting iteration of an interior row whose centre is a non-zero
\* chunk that differs from its left neighbour
C7_Witness ==
    /\ C7_Emitting
    /\ C7_LastIter <= TOTAL_CHUNKS
    /\ (C7_OutIdx \div CHUNKS_PER_ROW) \in 1 .. (HEIGHT - 2)
    /\ v2.win[1][1] # ZeroChunk
    /\ v2.win[1][1] # v2.win[1][0]

(***************************************************************************)
(* C8: for every pair of 8-bit samples a, b the difference units give 0    *)
(* if |a-b| < THRESH_LOW, 128 if THRESH_LOW <= |a-b| < THRESH_HIGH and 255 *)
(* otherwise; the units that form |a-b| in 8-bit unsigned arithmetic       *)
(* (lab-2) agree with the software reference and the lab-1 kernel, which   *)
(* form it in int16_t; and output lane k is that function of lane k of the *)
(* two input words alone.                                                  *)
(***************************************************************************)
C8_ThreeLevelsAndReference ==
    du.pc = "verify" =>
        \A c \in DOMAIN A, k \in Lanes :
            LET lvl == Level(AbsDiff(A[c][k], B[c][k]))
            IN  /\ du.C_v3[c][k] = lvl
                /\ du.C_v2[c][k] = lvl
                /\ du.C_SW[c * PIXELS_PER_CHUNK + k] = du.C_v3[c][k]
                /\ du.C_HW[c][k] = du.C_SW[c * PIXELS_PER_CHUNK + k]

\* a verified pair with a < b whose difference is the last one below
\* THRESH_HIGH, next to a lane of another level
C8_Witness ==
    /\ du.pc = "verify"
    /\ \E k \in Lanes, k2 \in Lanes :
          /\ A[0][k] < B[0][k]
          /\ B[0][k] - A[0][k] = THRESH_HIGH - 1
          /\ du.C_v3[0][k] = MID
          /\ du.C_v3[0][k2] = HIGH

(***************************************************************************)
(* C9: if A and B are equal at every position, every quantized sample is   *)
(* LOW (0) and every output sample is 0: in both streams, in the line      *)
(* buffer and window, and in C.                                            *)
(***************************************************************************)
AllZeroStream(q) == \A n \in 1 .. Len(q) : q[n].data = ZeroChunk

C9_EqualInputsGiveZero ==
    (\A p \in DOMAIN img_A : img_A[p] = img_B[p]) =>
        /\ AllZeroStream(v3.stream_post)
        /\ AllZeroStream(v3.stream_filt)
        /\ v3.fpc # "init" =>
              /\ \A r \in 0 .. 1, c \in 0 .. (CHUNKS_PER_ROW - 1) : v3.lb[r][c] = ZeroChunk
              /\ \A r \in 0 .. 2, c \in 0 .. 2 : v3.win[r][c] = ZeroChunk
        /\ \A i \in ChunkIdx : v3.C[i] = ZeroChunk

\* a finished run on equal images that are not uniform
C9_Witness ==
    /\ V3_Finished(v3)
    /\ \A p \in DOMAIN img_A : img_A[p] = img_B[p]
    /\ \E p \in DOMAIN img_A, q \in DOMAIN img_A : img_A[p] # img_A[q]

(***************************************************************************)
(* C10: on a 4x4 grid with P = 1 (CHUNKS_PER_ROW = 4, 21 iterations), with *)
(* the quantized samples named A..P in row-major order, V2 emits for       *)
(* out_idx 5, 6, 9, 10 the values clip(5F-B-J-E-G), clip(5G-C-K-F-H),      *)
(* clip(5J-F-N-I-K), clip(5K-G-O-J-L) at iterations 10, 11, 14, 15, and 0  *)
(* for every other out_idx in 0..15.                                       *)
(***************************************************************************)
C10_q(i) == Q[i][0]

C10_Expected(o) ==
    IF o = 5 THEN Clip(5 * C10_q(5) - C10_q(1) - C10_q(9) - C10_q(4) - C10_q(6))
    ELSE IF o = 6 THEN Clip(5 * C10_q(6) - C10_q(2) - C10_q(10) - C10_q(5) - C10_q(7))
    ELSE IF o = 9 THEN Clip(5 * C10_q(9) - C10_q(5) - C10_q(13) - C10_q(8) - C10_q(10))
    ELSE IF o = 10 THEN Clip(5 * C10_q(10) - C10_q(6) - C10_q(14) - C10_q(9) - C10_q(11))
    ELSE 0

C10_IterOf(o) == IF o = 5 THEN 10 ELSE IF o = 6 THEN 11 ELSE IF o = 9 THEN 14 ELSE 15

C10_WorkedExample4x4 ==
    (HEIGHT = 4 /\ WIDTH = 4 /\ PIXELS_PER_CHUNK = 1) =>
        /\ CHUNKS_PER_ROW = 4
        /\ V2_LOOP_LIMIT = 21
        /\ v2.pc \in {"write", "done"} =>
              /\ v2.iter = 21
              /\ {v2.outs[n][2] : n \in 1 .. Len(v2.outs)} = 0 .. 15
              /\ \A o \in 0 .. 15 : v2.C_filt[o][0] = C10_Expected(o)
        /\ v2.pc = "done" => \A o \in 0 .. 15 : v2.C[o][0] = C10_Expected(o)
        /\ \A n \in 1 .. Len(v2.outs) :
              LET it == v2.outs[n][1]
                  o == v2.outs[n][2]
              IN  /\ v2.C_filt[o][0] = C10_Expected(o)
                  /\ o \in {5, 6, 9, 10} => it = C10_IterOf(o)

\* the 4x4 run has finished and two of the four interior outputs are
\* unsaturated and different
C10_Witness ==
    /\ HEIGHT = 4 /\ WIDTH = 4 /\ PIXELS_PER_CHUNK = 1
    /\ v2.pc = "done"
    /\ v2.C[5][0] \notin {0, 255}
    /\ v2.C[10][0] \notin {0, 255}
    /\ v2.C[5][0] # v2.C[10][0]

(***************************************************************************)
(* C11: each stream of V3 delivers chunks in the order they were written:  *)
(* the n-th read of the window stage returns the n-th chunk the difference *)
(* stage wrote (quantized chunk n-1), the n-th read of the sink returns    *)
(* the n-th chunk the window stage wrote (the output for out_idx n-1) and  *)
(* the sink stores it to C[n-1]; the chunks waiting in a stream are the    *)
(* next ones to be read, oldest first.                                     *)
(***************************************************************************)
C11_QueuesDeliverInWriteOrder ==
    /\ \A n \in 1 .. Len(v3.reads) : v3.reads[n] = <<n - 1, n - 1>>
    /\ \A n \in 1 .. Len(v3.stream_post) :
          /\ v3.stream_post[n].idx = Len(v3.reads) + n - 1
          /\ v3.stream_post[n].data = Q[Len(v3.reads) + n - 1]
    /\ Len(v3.reads) + Len(v3.stream_post) = v3.i
    /\ \A n \in 1 .. Len(v3.outs) : v3.outs[n][2] = n - 1
    /\ \A n \in 1 .. Len(v3.stores) : v3.stores[n] = <<n - 1, n - 1>>
    /\ \A n \in 1 .. Len(v3.stream_filt) :
          /\ v3.stream_filt[n].idx = Len(v3.stores) + n - 1
          /\ v3.stream_filt[n].data = v2.C_filt[Len(v3.stores) + n - 1]
    /\ Len(v3.stores) + Len(v3.stream_filt) = Len(v3.outs)
    /\ Len(v3.stores) = v3.w
    /\ \A i \in 0 .. (v3.w - 1) : v3.C[i] = v2.C_filt[i]

\* both streams hold several chunks that are not all alike, and both
\* consumers have already read
C11_Witness ==
    /\ Len(v3.stream_post) >= 3
    /\ Len(v3.stream_filt) >= 3
    /\ Len(v3.reads) >= 1
    /\ Len(v3.stores) >= 1
    /\ \E n \in 2 .. Len(v3.stream_post) :
          v3.stream_post[n].data # v3.stream_post[1].data
    /\ \E n \in 2 .. Len(v3.stream_filt) :
          v3.stream_filt[n].data # v3.stream_filt[1].data

(***************************************************************************)
(* C12: in every reachable state of V3 each stream holds between 0 and     *)
(* its capacity chunks (16 in the source); a stage can take a step that    *)
(* writes to a stream only when the stream holds fewer chunks than its     *)
(* capacity, and a step that reads a stream only when it is not empty.     *)
(***************************************************************************)
C12_QueueOccupancyWithinCapacity ==
    /\ Len(v3.stream_post) \in 0 .. V3_depth
    /\ Len(v3.stream_filt) \in 0 .. V3_depth
    /\ ENABLED V3_Diff => Len(v3.stream_post) < V3_depth
    /\ ENABLED V3_FilterWrite => Len(v3.stream_filt) < V3_depth
    /\ (ENABLED V3_FilterFetch /\ v3.iter < TOTAL_CHUNKS) => Len(v3.stream_post) > 0
    /\ ENABLED V3_Write => Len(v3.stream_filt) > 0

\* C12, the part that holds in both builds: a stream never holds more than
\* the TOTAL_CHUNKS chunks of a run, a reading step is taken only on a
\* stream that is not empty, and the synthesised FIFO stays within its depth
C12_OccupancyInEitherBuild ==
    /\ Len(v3.stream_post) \in 0 .. TOTAL_CHUNKS
    /\ Len(v3.stream_filt) \in 0 .. TOTAL_CHUNKS
    /\ cfg.SYNTH =>
          /\ Len(v3.stream_post) <= V3_depth
          /\ Len(v3.stream_filt) <= V3_depth
          /\ ENABLED V3_Diff => Len(v3.stream_post) < V3_depth
          /\ ENABLED V3_FilterWrite => Len(v3.stream_filt) < V3_depth
    /\ (ENABLED V3_FilterFetch /\ v3.iter < TOTAL_CHUNKS) => Len(v3.stream_post) > 0
    /\ ENABLED V3_Write => Len(v3.stream_filt) > 0

\* the source compiled as a C++ program: stream_post holds more chunks than
\* the depth of the pragma while the window stage has not started
C12_OverCapacity ==
    /\ ~cfg.SYNTH
    /\ V3_depth = STREAM_DEPTH
    /\ Len(v3.stream_post) > STREAM_DEPTH
    /\ v3.fpc = "init"

(***************************************************************************)
(* C13: under weak fairness of the three stages of V3, for stream depths   *)
(* from 1 upwards: no reachable state before completion is a deadlock      *)
(* (some stage can always step), and every run eventually reaches and      *)
(* stays in the state where the difference stage, the window stage and the *)
(* sink have finished and all TOTAL_CHUNKS chunks are in C.                *)
(***************************************************************************)
C13_NoDeadlockAndCompletion ==
    /\ [](~V3_Finished(v3) => ENABLED NextV3)
    /\ <>[](V3_Finished(v3) /\ Len(v3.stores) = TOTAL_CHUNKS)

\* a finished run of the tall geometry through streams of depth 1, which
\* hold far fewer chunks than the run moves
C13_Witness ==
    /\ V3_Finished(v3)
    /\ cfg.SYNTH
    /\ V3_depth = 1
    /\ TOTAL_CHUNKS > STREAM_DEPTH
    /\ Len(v3.stores) = TOTAL_CHUNKS

(***************************************************************************)
(* C14: in every invocation, the first as well as a later one, the line    *)
(* buffer and the window are all zero when the window loop starts, and a   *)
(* run on a pair Y that follows a run on a pair X writes to C exactly what *)
(* a first run on Y writes, in V2 (static C_tmp, C_filt) and in V3 (static *)
(* streams, which hold nothing of the previous run when a run starts).     *)
(***************************************************************************)
C14_ZeroLB == [r \in 0 .. 1 |-> [c \in 0 .. (CHUNKS_PER_ROW - 1) |-> ZeroChunk]]

C14_ZeroWin == [r \in 0 .. 2 |-> [c \in 0 .. 2 |-> ZeroChunk]]

C14_NothingCarriedBetweenRuns ==
    /\ (v2.pc = "filter" /\ v2.iter = 0) =>
          (v2.lb = C14_ZeroLB /\ v2.win = C14_ZeroWin)
    /\ (v3.fpc = "fetch" /\ v3.iter = 0) =>
          (v3.lb = C14_ZeroLB /\ v3.win = C14_ZeroWin)
    /\ v3.fpc = "init" =>
          (Len(v3.stream_post) = v3.i /\ v3.stream_filt = <<>> /\ v3.w = 0)
    /\ v2.pc = "done" => v2.C = V2_Run(V2_Entry).C
    /\ V3_Finished(v3) => v3.C = V2_Run(V2_Entry).C

\* the second invocation of both kernels has returned, on a pair whose
\* output differs from that of the first pair, which had left non-zero
\* chunks in the line buffer
C14_Witness ==
    /\ v2.run = 2 /\ v2.pc = "done"
    /\ v3.run = 2 /\ V3_Finished(v3)
    /\ \E i \in ChunkIdx : v3.C[i] # ZeroChunk
    /\ \E i \in ChunkIdx : v3.C[i] # v3.C[TOTAL_CHUNKS - 1 - i]

(***************************************************************************)
(* C15: at every point of a run after its initialisation the window stage  *)
(* of V3 holds exactly 2*CHUNKS_PER_ROW line-buffer chunks and 9 window    *)
(* chunks, each a chunk of PIXELS_PER_CHUNK 8-bit samples; the amount is   *)
(* the same for every grid height.                                         *)
(***************************************************************************)
C15_IsChunk(x) == DOMAIN x = Lanes /\ \A k \in Lanes : x[k] \in Pixels

\* the index pairs of a two-dimensional array of chunks
C15_Cells(arr) ==
    {rc \in (DOMAIN arr) \X (0 .. MaxW) : rc[2] \in DOMAIN arr[rc[1]]}

C15_AuxiliaryStateIsTwoRowsPlusWindow ==
    v3.fpc # "init" =>
        /\ Cardinality(C15_Cells(v3.lb)) = 2 * CHUNKS_PER_ROW
        /\ Cardinality(C15_Cells(v3.win)) = 9
        /\ Cardinality(C15_Cells(v3.lb)) + Cardinality(C15_Cells(v3.win))
              = 2 * ((WIDTH + PIXELS_PER_CHUNK - 1) \div PIXELS_PER_CHUNK) + 9
        /\ \A rc \in C15_Cells(v3.lb) : C15_IsChunk(v3.lb[rc[1]][rc[2]])
        /\ \A rc \in C15_Cells(v3.win) : C15_IsChunk(v3.win[rc[1]][rc[2]])

\* the tallest geometry, with several chunks per row, late in its run and
\* with both line-buffer rows holding non-zero chunks
C15_Witness ==
    /\ v3.fpc = "write"
    /\ HEIGHT = MaxH
    /\ CHUNKS_PER_ROW >= 2
    /\ v3.iter >= 3 * CHUNKS_PER_ROW
    /\ \E c \in 0 .. (CHUNKS_PER_ROW - 1) :
          v3.lb[0][c] # ZeroChunk /\ v3.lb[1][c] # ZeroChunk

(***************************************************************************)
(* C16: a configuration whose thresholds are not strictly ordered          *)
(* (THRESH_LOW < THRESH_HIGH fails) is rejected before any chunk is        *)
(* processed: neither kernel reads a chunk, and no output chunk is         *)
(* produced.  The kernels have no such check, and TLC finds this violated. *)
(***************************************************************************)
C16_InvalidConfigRejected ==
    ~(THRESH_LOW < THRESH_HIGH) =>
        /\ v2.pc = "posterize" /\ v2.i = 0
        /\ v3.i = 0 /\ v3.outs = <<>> /\ v3.w = 0

(***************************************************************************)
(* C18  Shutdown of the pipeline.  The stages of accelerated_v3.cpp end on *)
(* loop counts fixed at compile time; the source has no close operation    *)
(* and no test for an end of stream (V3_stream_closed).                    *)
(***************************************************************************)

\* C18: each producer closes its output queue after it has written its last
\* chunk, and a downstream stage finishes only after it has observed the
\* close: when the window stage has left its loop stream_post is closed,
\* and when the sink has stored its last chunk stream_filt is closed, each
\* with every chunk written before the close received.
C18_FinishOnlyAfterClose ==
    /\ v3.fpc \in {"exit", "done"} =>
          /\ V3_stream_closed(v3.stream_post)
          /\ Len(v3.reads) = v3.i
    /\ v3.w = TOTAL_CHUNKS =>
          /\ V3_stream_closed(v3.stream_filt)
          /\ Len(v3.stores) = Len(v3.outs)

\* C18, what the stages do instead: a stage leaves its loop by its own
\* count, after it has received, in order, every one of the TOTAL_CHUNKS
\* chunks its producer wrote; its input stream is then empty
C18_StagesFinishByCount ==
    /\ v3.dpc = "done" => v3.i = TOTAL_CHUNKS
    /\ v3.fpc \in {"exit", "done"} =>
          /\ Len(v3.outs) = TOTAL_CHUNKS
          /\ v3.i = TOTAL_CHUNKS
          /\ Len(v3.reads) = TOTAL_CHUNKS
          /\ v3.stream_post = <<>>
    /\ v3.w = TOTAL_CHUNKS =>
          /\ Len(v3.outs) = TOTAL_CHUNKS
          /\ Len(v3.stores) = TOTAL_CHUNKS
          /\ v3.stream_filt = <<>>

\* the three stages have returned, one after the other as the C++ program
\* calls them, with all chunks stored and neither stream closed
C18_FinishedWithoutClose ==
    /\ V3_Finished(v3)
    /\ Len(v3.stores) = TOTAL_CHUNKS
    /\ ~V3_stream_closed(v3.stream_post)
    /\ ~V3_stream_closed(v3.stream_filt)

(***************************************************************************)
(* C19: for WIDTH a multiple of PIXELS_PER_CHUNK the kernels V0, V1, V2    *)
(* and V3 write the same value to every output chunk C[i] (V3 in every     *)
(* chunk it has written so far), and for every geometry the full-frame     *)
(* filter of V1 and the windowed filter of V2 agree at every position      *)
(* (r, c) with c < WIDTH.                                                  *)
(***************************************************************************)
C19_VersionsAgree ==
    /\ v2.pc = "done"
    /\ (WIDTH % PIXELS_PER_CHUNK = 0 /\ v0.pc = "done" /\ v1.pc = "done") =>
          /\ \A i \in ChunkIdx : v0.C[i] = v2.C[i] /\ v1.C[i] = v2.C[i]
          /\ \A i \in 0 .. (v3.w - 1) : v3.C[i] = v0.C[i] /\ v3.C[i] = v1.C[i]
          /\ V3_Finished(v3) => (v3.C = v0.C /\ v3.C = v1.C /\ v3.C = v2.C)
    /\ v1.pc \in {"pack", "done"} =>
          \A r \in 0 .. (HEIGHT - 1), c \in 0 .. (WIDTH - 1) :
              v1.C_filt[r][c] = At(v2.C_filt, r, c)

\* the four kernels have finished on a width that is a multiple of the
\* chunk width, with two samples per chunk and two chunks per row, and the
\* output has a non-zero sample
C19_Witness ==
    /\ v0.pc = "done" /\ v1.pc = "done" /\ v2.pc = "done" /\ V3_Finished(v3)
    /\ WIDTH % PIXELS_PER_CHUNK = 0
    /\ PIXELS_PER_CHUNK >= 2
    /\ CHUNKS_PER_ROW >= 2
    /\ \E i \in ChunkIdx, k \in Lanes : v0.C[i][k] # 0

(***************************************************************************)
(* C20: at every iteration of Filter_Loop that emits a chunk of a row r    *)
(* with 0 < r < H-1, after the shift and fill of that iteration: if        *)
(* chunk_col > 0 then win[1][0] is Q[out_idx-1], if chunk_col <            *)
(* CHUNKS_PER_ROW-1 then win[1][2] is Q[out_idx+1], and for every lane     *)
(* whose column j satisfies 0 < j < W-1 the west and east operands of the  *)
(* stencil are the quantized samples (r, j-1) and (r, j+1) of the same     *)
(* row, also across a chunk boundary.                                      *)
(***************************************************************************)
C20_Row == C7_OutIdx \div CHUNKS_PER_ROW

C20_ChunkCol == C7_OutIdx % CHUNKS_PER_ROW

C20_WestEastFromSameRow ==
    (C7_Emitting /\ 0 < C20_Row /\ C20_Row < HEIGHT - 1) =>
        /\ C20_ChunkCol > 0 => v2.win[1][0] = Q[C7_OutIdx - 1]
        /\ C20_ChunkCol < CHUNKS_PER_ROW - 1 => v2.win[1][2] = Q[C7_OutIdx + 1]
        /\ \A k \in Lanes :
              LET j == C20_ChunkCol * PIXELS_PER_CHUNK + k
              IN  (0 < j /\ j < WIDTH - 1) =>
                     /\ V2_west(v2.win, k) = At(Q, C20_Row, j - 1)
                     /\ V2_east(v2.win, k) = At(Q, C20_Row, j + 1)

\* an emitting iteration of an interior row, at a chunk that is not the
\* first of its row and has two lanes: lane 0 is an interior column, and
\* its west operand, taken from the chunk to the left, differs from the
\* samples above and below it and from the first lane of that chunk
C20_Witness ==
    /\ C7_Emitting
    /\ 0 < C20_Row /\ C20_Row < HEIGHT - 1
    /\ C20_ChunkCol > 0
    /\ PIXELS_PER_CHUNK >= 2
    /\ LET j == C20_ChunkCol * PIXELS_PER_CHUNK
       IN  /\ j < WIDTH - 1
           /\ V2_west(v2.win, 0) # At(Q, C20_Row - 1, j - 1)
           /\ V2_west(v2.win, 0) # At(Q, C20_Row + 1, j - 1)
           /\ V2_west(v2.win, 0) # v2.win[1][0][0]

(***************************************************************************)
(* C21: at every iteration of the window stage that emits a chunk of a row *)
(* r with 0 < r < H-1, when the chunk is computed, win[0][1] is the        *)
(* quantized chunk directly above the centre, Q[out_idx - CHUNKS_PER_ROW], *)
(* and win[2][1] the one directly below, Q[out_idx + CHUNKS_PER_ROW]       *)
(* (pipelined kernel, every interleaving).                                 *)
(***************************************************************************)
C21_OutIdx == V3_out_idx(v3.iter)

C21_NorthSouthChunks ==
    (v3.fpc = "write" /\ 0 < C21_OutIdx \div CHUNKS_PER_ROW
                      /\ C21_OutIdx \div CHUNKS_PER_ROW < HEIGHT - 1) =>
        /\ v3.win[0][1] = Q[C21_OutIdx - CHUNKS_PER_ROW]
        /\ v3.win[2][1] = Q[C21_OutIdx + CHUNKS_PER_ROW]

\* the window stage is about to write a chunk of an interior row, at a
\* chunk that is not the first of its row, whose chunks above and below
\* are non-zero and differ from each other
C21_Witness ==
    /\ v3.fpc = "write"
    /\ 0 < C21_OutIdx \div CHUNKS_PER_ROW
    /\ C21_OutIdx \div CHUNKS_PER_ROW < HEIGHT - 1
    /\ C21_OutIdx % CHUNKS_PER_ROW > 0
    /\ v3.win[0][1] # v3.win[2][1]
    /\ v3.win[0][1] # ZeroChunk
    /\ v3.win[2][1] # ZeroChunk

(***************************************************************************)
(* C22: after every iteration iter < TOTAL_CHUNKS of Filter_Loop and for   *)
(* every chunk-column c, lb[1][c] is the quantized chunk of column c       *)
(* consumed last (zero if none was consumed yet) and lb[0][c] is the chunk *)
(* of the same column one row earlier (zero if there is none); so right    *)
(* after the last chunk of a row r >= 1 is consumed, lb[0] is quantized    *)
(* row r-1 and lb[1] is quantized row r.                                   *)
(***************************************************************************)
\* index of the chunk of column c consumed last by iterations 0 .. it,
\* negative if there is none
C22_LastOfColumn(it, c) ==
    IF it % CHUNKS_PER_ROW >= c
    THEN it - (it % CHUNKS_PER_ROW) + c
    ELSE it - (it % CHUNKS_PER_ROW) + c - CHUNKS_PER_ROW

C22_ChunkOrZero(n) == IF n >= 0 THEN Q[n] ELSE ZeroChunk

C22_LineBufferHoldsLastTwoRows ==
    (v2.pc = "filter" /\ v2.iter >= 1 /\ v2.iter <= TOTAL_CHUNKS) =>
        LET it == v2.iter - 1
        IN  /\ \A c \in 0 .. (CHUNKS_PER_ROW - 1) :
                  /\ v2.lb[1][c] = C22_ChunkOrZero(C22_LastOfColumn(it, c))
                  /\ v2.lb[0][c] =
                        C22_ChunkOrZero(C22_LastOfColumn(it, c) - CHUNKS_PER_ROW)
            /\ (it % CHUNKS_PER_ROW = CHUNKS_PER_ROW - 1 /\ it >= 2 * CHUNKS_PER_ROW - 1) =>
                  LET r == it \div CHUNKS_PER_ROW
                  IN  \A c \in 0 .. (CHUNKS_PER_ROW - 1) :
                         /\ v2.lb[0][c] = Q[(r - 1) * CHUNKS_PER_ROW + c]
                         /\ v2.lb[1][c] = Q[r * CHUNKS_PER_ROW + c]

\* the last chunk of a row r >= 1 has just been consumed, with at least two
\* chunks per row, and the two buffered rows differ and have no zero chunk
C22_Witness ==
    /\ v2.pc = "filter"
    /\ v2.iter >= 2 * CHUNKS_PER_ROW
    /\ v2.iter <= TOTAL_CHUNKS
    /\ v2.iter % CHUNKS_PER_ROW = 0
    /\ CHUNKS_PER_ROW >= 2
    /\ v2.lb[0] # v2.lb[1]
    /\ \A c \in 0 .. (CHUNKS_PER_ROW - 1) :
          v2.lb[0][c] # ZeroChunk /\ v2.lb[1][c] # ZeroChunk

(***************************************************************************)
(* C23: every drain iteration (iter >= TOTAL_CHUNKS) of the window stage   *)
(* leaves the line buffer lb unchanged, shifts the window left by one      *)
(* column and sets its right column win[0][2], win[1][2], win[2][2] to     *)
(* zero chunks; it reads nothing from the stream, and the rest of the      *)
(* iteration (the computation and the stream write) changes neither lb     *)
(* nor the window.                                                         *)
(***************************************************************************)
C23_DrainStep ==
    /\ v3.fpc = "fetch"
    /\ v3.iter >= TOTAL_CHUNKS
    /\ v3'.fpc # "fetch"

C23_DrainFrame ==
    /\ C23_DrainStep =>
          /\ v3'.lb = v3.lb
          /\ \A r \in 0 .. 2 :
                /\ v3'.win[r][0] = v3.win[r][1]
                /\ v3'.win[r][1] = v3.win[r][2]
                /\ v3'.win[r][2] = ZeroChunk
          /\ v3'.stream_post = v3.stream_post
          /\ v3'.reads = v3.reads
          /\ v3'.iter = v3.iter
    /\ (v3.fpc = "write" /\ v3.iter >= TOTAL_CHUNKS) =>
          /\ v3'.lb = v3.lb
          /\ v3'.win = v3.win

C23_DrainLeavesLineBufferShiftsWindow == [][C23_DrainFrame]_vars

\* the first drain iteration has shifted the window: its right column is
\* zero, its middle column and the line buffer still hold non-zero chunks
C23_Witness ==
    /\ v3.fpc = "write"
    /\ v3.iter >= TOTAL_CHUNKS
    /\ \A r \in 0 .. 2 : v3.win[r][2] = ZeroChunk
    /\ v3.win[2][1] # ZeroChunk
    /\ v3.win[1][1] # ZeroChunk
    /\ \A r \in 0 .. 1, c \in 0 .. (CHUNKS_PER_ROW - 1) : v3.lb[r][c] # ZeroChunk
    /\ CHUNKS_PER_ROW >= 2

(***************************************************************************)
(* C24 as stated: every chunk emitted by a drain iteration (iter >=        *)
(* TOTAL_CHUNKS) of Filter_Loop lies in the last row, and every sample of  *)
(* it is 0.                                                                *)
(***************************************************************************)
C24_DrainEmitting == C7_Emitting /\ C7_LastIter >= TOTAL_CHUNKS

C24_DrainOutputsAllZero ==
    C24_DrainEmitting =>
        /\ C7_OutIdx \div CHUNKS_PER_ROW = HEIGHT - 1
        /\ v2.C_filt[C7_OutIdx] = ZeroChunk

(***************************************************************************)
(* C24 amended: every chunk emitted by an iteration iter > TOTAL_CHUNKS    *)
(* lies in the last row and all its samples are 0; the chunk emitted by    *)
(* the first drain iteration iter = TOTAL_CHUNKS is the last chunk of row  *)
(* H-2, and its samples at columns j < W are 0 on the border columns and   *)
(* the clipped stencil of the quantized grid elsewhere.                    *)
(***************************************************************************)
C24_DrainOutputs ==
    C24_DrainEmitting =>
        /\ C7_LastIter > TOTAL_CHUNKS =>
              /\ C7_OutIdx \div CHUNKS_PER_ROW = HEIGHT - 1
              /\ v2.C_filt[C7_OutIdx] = ZeroChunk
        /\ C7_LastIter = TOTAL_CHUNKS =>
              /\ C7_OutIdx = (HEIGHT - 1) * CHUNKS_PER_ROW - 1
              /\ \A k \in Lanes :
                    LET r == HEIGHT - 2
                        j == (CHUNKS_PER_ROW - 1) * PIXELS_PER_CHUNK + k
                    IN  j < WIDTH =>
                           v2.C_filt[C7_OutIdx][k] =
                              IF j = 0 \/ j = WIDTH - 1 THEN 0
                              ELSE Clip(5 * At(Q, r, j) - At(Q, r - 1, j)
                                        - At(Q, r + 1, j) - At(Q, r, j - 1)
                                        - At(Q, r, j + 1))

\* the first drain iteration has emitted the last chunk of row H-2 with a
\* non-zero sample
C24_Witness ==
    /\ C24_DrainEmitting
    /\ C7_LastIter = TOTAL_CHUNKS
    /\ PIXELS_PER_CHUNK >= 2
    /\ \E k \in Lanes : v2.C_filt[C7_OutIdx][k] \notin {0, 255}

(***************************************************************************)
(* C25: for every sample of an emitted chunk that is not forced to 0 as    *)
(* border, the five operands are quantized levels {0, 128, 255}, the       *)
(* stencil value v = 5*center - north - south - west - east lies in        *)
(* [-1020, 1275] and so is unchanged by a conversion to int16_t, and the   *)
(* stored value is min(255, max(0, v)), in [0, 255]; the host reference,   *)
(* which holds v in an int16_t, gives the output of the kernel.            *)
(***************************************************************************)
C25_Levels == {LOW, MID, HIGH}

C25_StencilRangeAndClip ==
    /\ C7_Emitting =>
          \A k \in Lanes :
              LET j == C20_ChunkCol * PIXELS_PER_CHUNK + k
                  v == V2_val(v2.win, k)
                  stored == v2.C_filt[C7_OutIdx][k]
              IN  ~(V2_row_border(C20_Row) \/ V2_col_border(j)) =>
                     /\ {v2.win[1][1][k], v2.win[0][1][k], v2.win[2][1][k],
                         V2_west(v2.win, k), V2_east(v2.win, k)} \subseteq C25_Levels
                     /\ v >= -1020 /\ v <= 1275
                     /\ S16(v) = v
                     /\ stored = (IF v < 0 THEN 0 ELSE IF v > 255 THEN 255 ELSE v)
                     /\ stored \in 0 .. 255
    /\ v2.pc = "done" =>
          unpack_pixels_fast(v2.C) = host_sw_reference(img_A, img_B)

\* an iteration has emitted a sample whose stencil value is the largest
\* possible one, 1275, stored as 255
C25_Witness ==
    /\ C7_Emitting
    /\ \E k \in Lanes :
          /\ ~V2_row_border(C20_Row)
          /\ ~V2_col_border(C20_ChunkCol * PIXELS_PER_CHUNK + k)
          /\ V2_val(v2.win, k) = 1275
          /\ v2.C_filt[C7_OutIdx][k] = 255

(***************************************************************************)
(* C26: when WIDTH is not a multiple of PIXELS_PER_CHUNK, the output at    *)
(* every non-padding position (column j < WIDTH) does not depend on the    *)
(* padding samples: a run on buffers with arbitrary padding gives, at      *)
(* every such position, the output of the run on the buffers that agree    *)
(* with them outside the padding and have zero padding, which is the flat  *)
(* reference on the logical images.                                        *)
(***************************************************************************)
\* the quantized grid of the zero-padded buffers of the same images
C26_QZeroPadded ==
    [i \in ChunkIdx |->
        V2_Process_64_Pixels(pack_pixels_fast(img_A)[i], pack_pixels_fast(img_B)[i])]

\* the kernel on the zero-padded buffers, from the end of Posterize_Loop
C26_ZeroPaddedRun ==
    V2_Run([V2_Entry EXCEPT !.i = TOTAL_CHUNKS, !.C_tmp = C26_QZeroPadded])

C26_OutputIgnoresPadding ==
    (v2.pc = "done" /\ WIDTH % PIXELS_PER_CHUNK # 0) =>
        /\ \A r \in 0 .. (HEIGHT - 1), j \in 0 .. (WIDTH - 1) :
              At(v2.C, r, j) = At(C26_ZeroPaddedRun.C, r, j)
        /\ unpack_pixels_fast(v2.C) = sw_reference_logical(img_A, img_B)

\* a finished run on a padded geometry whose quantized padding sample next
\* to the right edge of an interior row is non-zero and differs from the
\* sample on the edge, with a non-zero output in that row
C26_Witness ==
    /\ v2.pc = "done"
    /\ WIDTH % PIXELS_PER_CHUNK # 0
    /\ \E r \in 1 .. (HEIGHT - 2) :
          /\ At(Q, r, WIDTH) # 0
          /\ At(Q, r, WIDTH) # At(Q, r, WIDTH - 1)
          /\ At(v2.C, r, WIDTH - 2) # 0
    /\ v2.C # C26_ZeroPaddedRun.C

(***************************************************************************)
(* C27: when a pipelined run has completed both streams are empty: the     *)
(* difference stage has written exactly TOTAL_CHUNKS chunks and the window *)
(* stage has read exactly TOTAL_CHUNKS chunks from stream_post, the window *)
(* stage has written exactly TOTAL_CHUNKS chunks and the sink has read     *)
(* exactly TOTAL_CHUNKS chunks from stream_filt.  In every state a stream  *)
(* holds the chunks written to it and not yet read, and no stage exceeds   *)
(* TOTAL_CHUNKS.                                                           *)
(***************************************************************************)
C27_QueuesEmptyAtCompletion ==
    /\ V3_Finished(v3) =>
          /\ v3.stream_post = <<>>
          /\ v3.stream_filt = <<>>
          /\ v3.i = TOTAL_CHUNKS
          /\ Len(v3.reads) = TOTAL_CHUNKS
          /\ Len(v3.outs) = TOTAL_CHUNKS
          /\ Len(v3.stores) = TOTAL_CHUNKS
    /\ Len(v3.stream_post) = v3.i - Len(v3.reads)
    /\ Len(v3.stream_filt) = Len(v3.outs) - Len(v3.stores)
    /\ v3.i <= TOTAL_CHUNKS
    /\ Len(v3.reads) <= TOTAL_CHUNKS
    /\ Len(v3.outs) <= TOTAL_CHUNKS
    /\ Len(v3.stores) <= TOTAL_CHUNKS

\* a completed run on the tallest geometry with two chunks per row, after
\* TOTAL_CHUNKS reads and writes on each stream
C27_Witness ==
    /\ V3_Finished(v3)
    /\ HEIGHT = MaxH
    /\ CHUNKS_PER_ROW >= 2
    /\ Len(v3.reads) = TOTAL_CHUNKS
    /\ Len(v3.stores) = TOTAL_CHUNKS
    /\ v3.stream_post = <<>>
    /\ v3.stream_filt = <<>>

(***************************************************************************)
(* C28: in every interleaving of the pipelined kernel, output chunk k is   *)
(* put on stream_filt, and hence written to C, only after the difference   *)
(* stage has produced quantized chunk min(k + CHUNKS_PER_ROW + 1,          *)
(* TOTAL_CHUNKS - 1); in particular nothing is written to C before the     *)
(* difference stage has produced its first CHUNKS_PER_ROW + 2 chunks.      *)
(***************************************************************************)
C28_Needed(k) ==
    IF k + CHUNKS_PER_ROW + 1 < TOTAL_CHUNKS - 1
    THEN k + CHUNKS_PER_ROW + 1
    ELSE TOTAL_CHUNKS - 1

\* the difference stage has produced chunks 0 .. v3.i - 1
C28_OutputAfterLookahead ==
    /\ \A k \in 0 .. (v3.w - 1) : v3.i > C28_Needed(k)
    /\ \A k \in 0 .. (Len(v3.outs) - 1) : v3.i > C28_Needed(k)
    /\ v3.w >= 1 => v3.i >= CHUNKS_PER_ROW + 2

\* the first output chunk has been written to C when the difference stage
\* has produced exactly CHUNKS_PER_ROW + 2 chunks and still owes others
C28_Witness ==
    /\ v3.w = 1
    /\ v3.i = CHUNKS_PER_ROW + 2
    /\ v3.i < TOTAL_CHUNKS
    /\ CHUNKS_PER_ROW >= 2

(***************************************************************************)
(* C29: every index used by an iteration of Filter_Loop is in range: the   *)
(* line-buffer column iter mod CHUNKS_PER_ROW is a column of lb, every     *)
(* read of the stored grid C_tmp has an index in [0, TOTAL_CHUNKS), every  *)
(* write of C_filt has an index out_idx in [0, TOTAL_CHUNKS), and the      *)
(* window column and lane read for the west and east operands of a lane    *)
(* are a column of the window and a lane of a chunk, the lanes k-1 and k+1 *)
(* being used only when they are lanes of the centre chunk.                *)
(***************************************************************************)
C29_IndicesInRange ==
    /\ \A n \in 1 .. Len(v2.reads) :
          /\ v2.reads[n][2] \in DOMAIN v2.C_tmp
          /\ v2.reads[n][2] >= 0 /\ v2.reads[n][2] < TOTAL_CHUNKS
          /\ v2.reads[n][1] < TOTAL_CHUNKS
    /\ \A n \in 1 .. Len(v2.outs) :
          /\ v2.outs[n][2] \in DOMAIN v2.C_filt
          /\ v2.outs[n][2] >= 0 /\ v2.outs[n][2] < TOTAL_CHUNKS
          /\ v2.outs[n][2] = V2_out_idx(v2.outs[n][1])
    /\ (v2.pc = "filter" /\ v2.iter < V2_LOOP_LIMIT) =>
          /\ DOMAIN v2.lb = 0 .. 1
          /\ \A r \in 0 .. 1 : DOMAIN v2.lb[r] = 0 .. (CHUNKS_PER_ROW - 1)
          /\ (v2.iter % CHUNKS_PER_ROW) \in DOMAIN v2.lb[0]
          /\ DOMAIN v2.win = 0 .. 2
          /\ \A r \in 0 .. 2 : DOMAIN v2.win[r] = 0 .. 2
          /\ \A k \in Lanes :
                /\ V2_west_at(k)[1] \in DOMAIN v2.win[1]
                /\ V2_west_at(k)[2] \in DOMAIN v2.win[1][V2_west_at(k)[1]]
                /\ V2_east_at(k)[1] \in DOMAIN v2.win[1]
                /\ V2_east_at(k)[2] \in DOMAIN v2.win[1][V2_east_at(k)[1]]
                /\ V2_west_at(k)[1] = 1 => (V2_west_at(k)[2] = k - 1 /\ k - 1 >= 0)
                /\ V2_east_at(k)[1] = 1 =>
                      (V2_east_at(k)[2] = k + 1 /\ k + 1 < PIXELS_PER_CHUNK)

\* the first drain iteration has run: all TOTAL_CHUNKS reads are done and
\* none was made at iter = TOTAL_CHUNKS, and the chunk it wrote, not the
\* first of its row, has two lanes of which lane 0 took its west operand
\* from the chunk to the left
C29_Witness ==
    /\ C7_Emitting
    /\ C7_LastIter = TOTAL_CHUNKS
    /\ Len(v2.reads) = TOTAL_CHUNKS
    /\ C20_ChunkCol > 0
    /\ PIXELS_PER_CHUNK >= 2
    /\ ~V2_col_border(C20_ChunkCol * PIXELS_PER_CHUNK)
    /\ V2_west_at(0) = <<0, PIXELS_PER_CHUNK - 1>>
    /\ v2.outs[Len(v2.outs)] = <<TOTAL_CHUNKS, TOTAL_CHUNKS - CHUNKS_PER_ROW - 1>>

\* C30 helper: byte b of a row-padded buffer lies in a padding column
C30_PaddingByte(b) == (b % PADDED_WIDTH) >= WIDTH

\* C30 helper: the byte at offset b of the chunk array
C30_ChunkByte(chunks, b) == chunks[b \div PIXELS_PER_CHUNK][b % PIXELS_PER_CHUNK]

\* C30: once a program has packed its images, every sample of a packed
\* buffer in a column >= WIDTH of its padded row is 0, and un-padding the
\* packed buffer gives back the original image, sample for sample
\* (unpack(pack(x)) = x).  This holds for the testbench pair
\* (pack_pixels_fast, unpack_pixels_fast) on hw_A and hw_B and for the host
\* pair (pad_pixels, unpad_pixels) on padded_A and padded_B.
C30_PackUnpackRoundTrip ==
    /\ (du.prog = "tb" /\ du.pc # "pack") =>
          /\ DOMAIN A = ChunkIdx
          /\ \A b \in 0 .. (BUFFER_SIZE_BYTES - 1) :
                C30_PaddingByte(b) =>
                    /\ C30_ChunkByte(A, b) = 0
                    /\ C30_ChunkByte(B, b) = 0
          /\ unpack_pixels_fast(A) = img_A
          /\ unpack_pixels_fast(B) = img_B
    /\ (du.prog = "host" /\ du.pc # "pad") =>
          /\ DOMAIN du.padded_A = 0 .. (BUFFER_SIZE_BYTES - 1)
          /\ \A b \in 0 .. (BUFFER_SIZE_BYTES - 1) :
                C30_PaddingByte(b) =>
                    /\ du.padded_A[b] = 0
                    /\ du.padded_B[b] = 0
          /\ unpad_pixels(du.padded_A) = img_A
          /\ unpad_pixels(du.padded_B) = img_B

\* C30 witness: the testbench has packed an image of a width that is not a
\* multiple of the chunk width, whose last column and second row hold
\* non-zero samples different from the first row's, and has run to its end
C30_Witness ==
    /\ du.prog = "tb"
    /\ du.pc = "done"
    /\ PADDED_WIDTH > WIDTH
    /\ img_A[WIDTH - 1] # 0
    /\ img_A[WIDTH] # 0
    /\ img_A[WIDTH] # img_A[0]
    /\ img_A[2 * WIDTH - 1] # img_A[WIDTH - 1]
    /\ unpack_pixels_fast(A) = img_A
    /\ \E b \in 0 .. (BUFFER_SIZE_BYTES - 1) :
          C30_PaddingByte(b) /\ C30_ChunkByte(A, b) = 0
====
